---------------------------- MODULE Spec2Model ----------------------------
(***************************************************************************)
(* A model of system_test/utils/kafka_system_test_utils.py: the remote     *)
(* entity lifecycle and validation engine of the Kafka system test         *)
(* harness.                                                                *)
(*                                                                         *)
(* Python strings are modelled as sequences of one-character strings, so   *)
(* that concatenation (+), startswith, split, "in" and the regular         *)
(* expression of get_message_id are computed as the code computes them.    *)
(* Lines of a file are modelled without their trailing newline.            *)
(***************************************************************************)
EXTENDS Integers, Sequences, FiniteSets, TLC

VARIABLES
    \* ---- validation engine ----
    producerLog,          \* lines of the file userDefinedEnvVarDict["producerLogPathName"]
    consumerLog,          \* lines of the file userDefinedEnvVarDict["consumerLogPathName"]
    missingLog,           \* lines of msg_id_missing_in_consumer.log
    validationStatusDict, \* testcaseEnv.validationStatusDict
    lastCall,             \* the extraction or validation call that has just returned (or raised)
    \* ---- log fact extractor: leader election ----
    brokerLog,            \* broker entity id -> the lines of its log file
    leaderDict,           \* the leader fact the testcase holds
    \* ---- config materializer: generate_overriden_props_files ----
    clusterConfigsList,   \* its local clusterConfigsList (the topology of the testcase)
    tcConfigsList,        \* testcaseEnv.testcaseConfigsList: a list of settings mappings
    templateFiles,        \* template file name -> its lines, for the templates that exist
    destFiles,            \* config_filename -> the lines rendered into it
    propsPc,              \* idle, rendering, distributing, returned, or raised
    propsIdx,             \* the index of the entity the running loop is at
    propsZkConnectStr,    \* its local zkConnectStr
    propsEvents,          \* renderings, skips and remote copies so far, in order
    \* ---- remote hosts: the process table ----
    procParent,           \* pid -> parent pid (0: none) of every process spawned so far
    alive,                \* the pids of the processes that are running
    \* ---- stop_remote_entity ----
    stopPc,               \* position in stop_remote_entity: idle, resolved, termed, slept
    stopArgs,             \* its arguments (entityId, parentPid)
    pidStack,             \* its local pidStack
    stopEvents,           \* what the running (or last) call has done so far, in order
    \* ---- testcaseEnv ----
    entityParentPidDict,  \* testcaseEnv.entityParentPidDict
    zkConnectStr,         \* testcaseEnv.userDefinedEnvVarDict["zkConnectStr"]
    \* ---- remote hosts: pid marker files and detached launches ----
    markerFile,           \* marker file -> its lines (none: no such file, or empty)
    jobs,                 \* the detached launch commands that have not finished
    launches,             \* every detached launch issued so far, in order
    \* ---- start_zookeepers, start_brokers, start_entity_in_background ----
    phase,                \* how far the testcase has come with the start-up
    startQueue,           \* the entity ids the running start loop has still to start
    startPc,              \* position in start_entity_in_background
    startEntity,          \* its argument entityId
    readback,             \* the lines of its local subproc.stdout
    startEvents,          \* what the running (or last) call has done so far, in order
    startRaised,          \* the exception that left the start-up, if any
    started,              \* the entityId of every call so far, in order
    returned,             \* the entityId of every call that has returned, in order
    restarts,             \* direct calls of start_entity_in_background made so far
    \* ---- cleanup_data_at_remote_hosts ----
    dataDirOf,            \* entity id -> its dataDir (zookeeper) or log.dir (broker)
    cleanupPc,            \* idle, running, returned, or exited (sys.exit)
    cleanupIdx,           \* the index of the entity the loop is at
    cleanupCmds,          \* the deletion commands the call has issued, in order
    exitStatus,           \* the exit status of the harness once it has exited
    \* ---- get_testcase_config_log_dir_pathname ----
    pathArgs,             \* its arguments: the two directories of testcaseEnv, role, entityId, type
    pathReturn,           \* what its call has returned (none: not called yet)
    pathLogged            \* the error messages its call has logged, in order

validationVars == <<producerLog, consumerLog, missingLog, validationStatusDict, lastCall>>
procVars       == <<procParent, alive>>
stopVars       == <<stopPc, stopArgs, pidStack, stopEvents>>
envVars        == <<entityParentPidDict, zkConnectStr>>
markerVars     == <<markerFile, jobs, launches>>
startVars      == <<phase, startQueue, startPc, startEntity, readback, startEvents,
                    startRaised, started, returned, restarts>>
lifecycleVars  == <<envVars, markerVars, startVars>>
cleanupVars    == <<dataDirOf, cleanupPc, cleanupIdx, cleanupCmds, exitStatus>>
leaderVars     == <<brokerLog, leaderDict>>
propsVars      == <<clusterConfigsList, tcConfigsList, templateFiles, destFiles,
                    propsPc, propsIdx, propsZkConnectStr, propsEvents>>

pathVars       == <<pathArgs, pathReturn, pathLogged>>

vars == <<validationVars, procVars, stopVars, lifecycleVars, cleanupVars, leaderVars,
         propsVars, pathVars>>

-----------------------------------------------------------------------------
(* Strings *)

StartsWith(s, p) == Len(s) >= Len(p) /\ SubSeq(s, 1, Len(p)) = p

\* Python: sub in s
Contains(s, sub) ==
    \E i \in 1..(Len(s) - Len(sub) + 1) : SubSeq(s, i, i + Len(sub) - 1) = sub

Range(s) == {s[i] : i \in 1..Len(s)}

\* All the orders in which the elements of a finite set can be enumerated.
Perms(S) ==
    {p \in [1..Cardinality(S) -> S] : \A i, j \in 1..Cardinality(S) : p[i] = p[j] => i = j}

Max(S) == CHOOSE x \in S : \A y \in S : y <= x
Min(S) == CHOOSE x \in S : \A y \in S : x <= y

sMessageID == <<"M", "e", "s", "s", "a", "g", "e", "I", "D">>
sColon     == <<":">>

-----------------------------------------------------------------------------
(* Log Fact Extractor: get_message_id *)

\* The positions at which 'MessageID:' starts in the line and is followed,
\* somewhere after it, by a ':' : the ways '.*MessageID:(.*?):' can match.
MessageIdMatchStarts(line) ==
    {i \in 1..Len(line) :
        /\ i + Len(sMessageID) <= Len(line)
        /\ SubSeq(line, i, i + Len(sMessageID)) = sMessageID \o sColon
        /\ \E j \in (i + Len(sMessageID) + 1)..Len(line) : line[j] = ":"}

\* re.match('.*MessageID:(.*?):', line) is not None
MessageIdMatches(line) == MessageIdMatchStarts(line) # {}

\* group(1) taken from the first MessageID: up to the last ':' of the line
MessageIdGroup1_Greedy(line) ==
    LET i     == Min(MessageIdMatchStarts(line))
        first == i + Len(sMessageID) + 1
        j     == Max({k \in first..Len(line) : line[k] = ":"})
    IN  SubSeq(line, first, j - 1)

\* matchObj.group(1): the greedy '.*' takes the last start that lets the rest
\* match, the lazy '(.*?)' stops at the first ':' after it.
MessageIdGroup1(line) ==
    LET i     == Max(MessageIdMatchStarts(line))
        first == i + Len(sMessageID) + 1
        j     == Min({k \in first..Len(line) : line[k] = ":"})
    IN  SubSeq(line, first, j - 1)

HasMessageID(line) == Contains(line, sMessageID)

\* get_message_id(logPathName): the list of ids, or the AttributeError raised
\* by matchObj.group(1) on a line that contains MessageID and does not match.
get_message_id(logLines) ==
    LET marked == SelectSeq(logLines, HasMessageID)
    IN  IF \E k \in 1..Len(marked) : ~MessageIdMatches(marked[k])
        THEN [raised |-> TRUE,  messageIdList |-> <<>>]
        ELSE [raised |-> FALSE,
              messageIdList |-> [k \in 1..Len(marked) |-> MessageIdGroup1(marked[k])]]

-----------------------------------------------------------------------------
(* Validation Engine: validate_data_matched *)

DataMatchedKey == "Validate for data matched"
LeaderElectionKey == "Validate leader election successful"

NoCall == [fn |-> "none", ret |-> "none", P |-> {}, C |-> {}, before |-> <<>>]

\* dict[key] = value
DictSet(dict, key, value) ==
    [k \in (DOMAIN dict) \cup {key} |-> IF k = key THEN value ELSE dict[k]]

\* validate_data_matched without the guard against a producer that sent nothing
validate_data_matched_NoEmptyGuard ==
    LET prod == get_message_id(producerLog)
        cons == get_message_id(consumerLog)
        producerMsgIdSet == Range(prod.messageIdList)
        consumerMsgIdSet == Range(cons.messageIdList)
        missingMsgIdInConsumer == producerMsgIdSet \ consumerMsgIdSet
        ret == IF Cardinality(missingMsgIdInConsumer) = 0 THEN "True" ELSE "False"
    IN  /\ ~(prod.raised \/ cons.raised)
        /\ \E order \in Perms(missingMsgIdInConsumer) :
               missingLog' = [k \in 1..Cardinality(missingMsgIdInConsumer) |-> order[k]]
        /\ validationStatusDict' = DictSet(validationStatusDict, DataMatchedKey,
                                           IF ret = "True" THEN "PASSED" ELSE "FAILED")
        /\ lastCall' = [fn |-> "validate_data_matched", ret |-> ret,
                        P |-> producerMsgIdSet, C |-> consumerMsgIdSet, before |-> missingLog]
        /\ UNCHANGED <<producerLog, consumerLog>>

\* validate_data_matched opening the missing-ids log in append mode
validate_data_matched_AppendMode ==
    LET prod == get_message_id(producerLog)
        cons == get_message_id(consumerLog)
        producerMsgIdSet == Range(prod.messageIdList)
        consumerMsgIdSet == Range(cons.messageIdList)
        missingMsgIdInConsumer == producerMsgIdSet \ consumerMsgIdSet
        ret == IF Cardinality(missingMsgIdInConsumer) = 0 /\ Cardinality(producerMsgIdSet) > 0
               THEN "True" ELSE "False"
    IN  /\ ~(prod.raised \/ cons.raised)
        /\ \E order \in Perms(missingMsgIdInConsumer) :
               missingLog' = missingLog \o [k \in 1..Cardinality(missingMsgIdInConsumer) |-> order[k]]
        /\ validationStatusDict' = DictSet(validationStatusDict, DataMatchedKey,
                                           IF ret = "True" THEN "PASSED" ELSE "FAILED")
        /\ lastCall' = [fn |-> "validate_data_matched", ret |-> ret,
                        P |-> producerMsgIdSet, C |-> consumerMsgIdSet, before |-> missingLog]
        /\ UNCHANGED <<producerLog, consumerLog>>

\* validate_data_matched passing only if the consumer logged at least as many
\* id lines as the producer
validate_data_matched_CountingLines ==
    LET prod == get_message_id(producerLog)
        cons == get_message_id(consumerLog)
        producerMsgIdSet == Range(prod.messageIdList)
        consumerMsgIdSet == Range(cons.messageIdList)
        missingMsgIdInConsumer == producerMsgIdSet \ consumerMsgIdSet
        ret == IF /\ Cardinality(missingMsgIdInConsumer) = 0
                  /\ Cardinality(producerMsgIdSet) > 0
                  /\ Len(prod.messageIdList) <= Len(cons.messageIdList)
               THEN "True" ELSE "False"
    IN  /\ ~(prod.raised \/ cons.raised)
        /\ \E order \in Perms(missingMsgIdInConsumer) :
               missingLog' = [k \in 1..Cardinality(missingMsgIdInConsumer) |-> order[k]]
        /\ validationStatusDict' = DictSet(validationStatusDict, DataMatchedKey,
                                           IF ret = "True" THEN "PASSED" ELSE "FAILED")
        /\ lastCall' = [fn |-> "validate_data_matched", ret |-> ret,
                        P |-> producerMsgIdSet, C |-> consumerMsgIdSet, before |-> missingLog]
        /\ UNCHANGED <<producerLog, consumerLog>>

validate_data_matched ==
    LET prod == get_message_id(producerLog)
        cons == get_message_id(consumerLog)
        producerMsgIdSet == Range(prod.messageIdList)
        consumerMsgIdSet == Range(cons.messageIdList)
        missingMsgIdInConsumer == producerMsgIdSet \ consumerMsgIdSet
    IN  IF prod.raised \/ cons.raised
        THEN \* the exception leaves get_message_id before the file is opened
             /\ lastCall' = [fn |-> "validate_data_matched", ret |-> "raised",
                             P |-> {}, C |-> {}, before |-> missingLog]
             /\ UNCHANGED <<producerLog, consumerLog, missingLog, validationStatusDict>>
        ELSE \* open(..., "w") truncates; a set is written in its iteration order
             /\ \E order \in Perms(missingMsgIdInConsumer) :
                    missingLog' = [k \in 1..Cardinality(missingMsgIdInConsumer) |-> order[k]]
             /\ IF Cardinality(missingMsgIdInConsumer) = 0 /\ Cardinality(producerMsgIdSet) > 0
                THEN /\ validationStatusDict' = DictSet(validationStatusDict, DataMatchedKey, "PASSED")
                     /\ lastCall' = [fn |-> "validate_data_matched", ret |-> "True",
                                     P |-> producerMsgIdSet, C |-> consumerMsgIdSet,
                                     before |-> missingLog]
                ELSE /\ validationStatusDict' = DictSet(validationStatusDict, DataMatchedKey, "FAILED")
                     /\ lastCall' = [fn |-> "validate_data_matched", ret |-> "False",
                                     P |-> producerMsgIdSet, C |-> consumerMsgIdSet,
                                     before |-> missingLog]
             /\ UNCHANGED <<producerLog, consumerLog>>

-----------------------------------------------------------------------------
(* The producer and the consumer, which write the two logs *)

MaxProducerLines == 2
MaxConsumerLines == 2

\* The lines a producer_performance or console_consumer log is drawn from.
LogLines ==
    { <<"x">>,
      sMessageID \o sColon \o <<"a">> \o sColon,
      sMessageID \o sColon \o <<"a">>,
      sMessageID \o sColon \o <<"a">> \o sColon \o sMessageID \o sColon \o <<"b">> \o sColon \o <<"x">> }

ProducerWritesLine ==
    /\ Len(producerLog) < MaxProducerLines
    /\ \E line \in LogLines : producerLog' = Append(producerLog, line)
    /\ lastCall' = NoCall
    /\ UNCHANGED <<consumerLog, missingLog, validationStatusDict>>

ConsumerWritesLine ==
    /\ Len(consumerLog) < MaxConsumerLines
    /\ \E line \in LogLines : consumerLog' = Append(consumerLog, line)
    /\ lastCall' = NoCall
    /\ UNCHANGED <<producerLog, missingLog, validationStatusDict>>

InitValidationVars ==
    /\ producerLog = <<>>
    /\ consumerLog = <<>>
    /\ missingLog = <<>>
    /\ validationStatusDict = <<>>
    /\ lastCall = NoCall

-----------------------------------------------------------------------------
(* The cluster: systemTestEnv.clusterEntityConfigDictList *)

sZookeeper == <<"z", "o", "o", "k", "e", "e", "p", "e", "r">>
sBroker    == <<"b", "r", "o", "k", "e", "r">>
sProducer  == <<"p", "r", "o", "d", "u", "c", "e", "r", "_", "p", "e", "r", "f", "o", "r", "m", "a", "n", "c", "e">>
sConsumer  == <<"c", "o", "n", "s", "o", "l", "e", "_", "c", "o", "n", "s", "u", "m", "e", "r">>

\* Three coordination nodes on three hosts, a broker, a producer and a
\* consumer, in the order of the cluster configuration file.
clusterEntityConfigDictList ==
    << [entity_id |-> <<"0">>, role |-> sZookeeper, hostname |-> <<"h", "1">>],
       [entity_id |-> <<"1">>, role |-> sBroker,    hostname |-> <<"h", "1">>],
       [entity_id |-> <<"2">>, role |-> sZookeeper, hostname |-> <<"h", "2">>],
       [entity_id |-> <<"3">>, role |-> sZookeeper, hostname |-> <<"h", "3">>],
       [entity_id |-> <<"4">>, role |-> sProducer,  hostname |-> <<"h", "1">>],
       [entity_id |-> <<"5">>, role |-> sConsumer,  hostname |-> <<"h", "2">>] >>

EntityIds == {clusterEntityConfigDictList[i].entity_id : i \in 1..Len(clusterEntityConfigDictList)}

\* system_test_utils.get_data_by_lookup_keyval(clusterEntityConfigDictList,
\*     "entity_id", entityId, field): the field of the first entity with that id
ClusterEntity(entityId) ==
    clusterConfigsList[
        Min({i \in 1..Len(clusterConfigsList) :
                clusterConfigsList[i].entity_id = entityId})]

-----------------------------------------------------------------------------
(* Remote hosts: processes *)

MaxPid == 3
Pids == 1..MaxPid

InitProcVars ==
    /\ procParent = <<>>
    /\ alive = {}

Spawned == DOMAIN procParent

\* a process, or the child of a running process, starts on a remote host
RemoteProcessStarts ==
    /\ Cardinality(Spawned) < MaxPid
    /\ \E parent \in {0} \cup alive :
           LET pid == Cardinality(Spawned) + 1
           IN  /\ procParent' = [q \in Spawned \cup {pid} |->
                                    IF q = pid THEN parent ELSE procParent[q]]
               /\ alive' = alive \cup {pid}

\* The process table after the processes of `dying` have ended: their children
\* are re-parented to init and no longer belong to their tree.
AfterExit(dying) ==
    [q \in Spawned |-> IF procParent[q] \in dying THEN 0 ELSE procParent[q]]

RemoteProcessExits ==
    \E p \in alive :
        /\ alive' = alive \ {p}
        /\ procParent' = AfterExit({p})

RECURSIVE IsDescendant(_, _)
IsDescendant(q, p) ==
    /\ q \in Spawned
    /\ procParent[q] # 0
    /\ (procParent[q] = p \/ IsDescendant(procParent[q], p))

\* The elements of a set of pids in increasing order.
RECURSIVE Ascending(_)
Ascending(S) == IF S = {} THEN <<>> ELSE <<Min(S)>> \o Ascending(S \ {Min(S)})

\* system_test_utils.get_remote_child_processes(hostname, parentPid): the
\* parent pid followed by the pids of its running descendants
get_remote_child_processes(parentPid) ==
    <<parentPid>> \o Ascending({q \in alive : IsDescendant(q, parentPid)})

-----------------------------------------------------------------------------
(* Process Lifecycle Manager: stop_remote_entity *)

GraceInterval == 1

InitStopVars ==
    /\ stopPc = "idle"
    /\ stopArgs = [entityId |-> <<>>, parentPid |-> 0]
    /\ pidStack = <<>>
    /\ stopEvents = <<>>

StopHostname == ClusterEntity(stopArgs.entityId).hostname

\* lines 521-525: the call, and the resolution of the process tree
stop_remote_entity_resolve ==
    /\ stopPc = "idle"
    /\ \E entityId \in EntityIds, parentPid \in Pids :
           /\ stopArgs' = [entityId |-> entityId, parentPid |-> parentPid]
           /\ pidStack' = get_remote_child_processes(parentPid)
           /\ stopEvents' = <<[op |-> "get_remote_child_processes",
                               hostname |-> ClusterEntity(entityId).hostname,
                               pids |-> <<parentPid>>, secs |-> 0]>>
    /\ stopPc' = "resolved"
    /\ UNCHANGED procVars

\* system_test_utils.sigterm_remote_process(hostname, pidStack): every process
\* of pidStack is sent the graceful signal; which of them end on it is theirs
\* to decide
sigterm_remote_process(stack) ==
    \E ended \in SUBSET (Range(stack) \cap alive) :
        /\ alive' = alive \ ended
        /\ procParent' = AfterExit(ended)

\* system_test_utils.sigkill_remote_process(hostname, pidStack): every process
\* of pidStack that still runs is killed
sigkill_remote_process(stack) ==
    /\ alive' = alive \ Range(stack)
    /\ procParent' = AfterExit(Range(stack) \cap alive)

\* line 528
stop_remote_entity_sigterm ==
    /\ stopPc = "resolved"
    /\ sigterm_remote_process(pidStack)
    /\ stopEvents' = Append(stopEvents, [op |-> "sigterm_remote_process",
                                         hostname |-> StopHostname,
                                         pids |-> pidStack, secs |-> 0])
    /\ stopPc' = "termed"
    /\ UNCHANGED <<stopArgs, pidStack>>

\* stop_remote_entity without its time.sleep(1)
stop_remote_entity_sleep_Skipped ==
    /\ stopPc = "termed"
    /\ stopPc' = "slept"
    /\ UNCHANGED <<stopArgs, pidStack, stopEvents, procVars>>

\* line 529: time.sleep(1)
stop_remote_entity_sleep ==
    /\ stopPc = "termed"
    /\ stopEvents' = Append(stopEvents, [op |-> "sleep", hostname |-> <<>>,
                                         pids |-> <<>>, secs |-> GraceInterval])
    /\ stopPc' = "slept"
    /\ UNCHANGED <<stopArgs, pidStack, procVars>>

\* stop_remote_entity with the forced kill sent to the parent only
stop_remote_entity_sigkill_ParentOnly ==
    /\ stopPc = "slept"
    /\ sigkill_remote_process(<<stopArgs.parentPid>>)
    /\ stopEvents' = Append(stopEvents, [op |-> "sigkill_remote_process",
                                         hostname |-> StopHostname,
                                         pids |-> <<stopArgs.parentPid>>, secs |-> 0])
    /\ stopPc' = "idle"
    /\ UNCHANGED <<stopArgs, pidStack>>

\* line 530, and the return
stop_remote_entity_sigkill ==
    /\ stopPc = "slept"
    /\ sigkill_remote_process(pidStack)
    /\ stopEvents' = Append(stopEvents, [op |-> "sigkill_remote_process",
                                         hostname |-> StopHostname,
                                         pids |-> pidStack, secs |-> 0])
    /\ stopPc' = "idle"
    /\ UNCHANGED <<stopArgs, pidStack>>

stop_remote_entity ==
    \/ stop_remote_entity_resolve
    \/ stop_remote_entity_sigterm
    \/ stop_remote_entity_sleep
    \/ stop_remote_entity_sigkill


-----------------------------------------------------------------------------

-----------------------------------------------------------------------------
(* More strings *)

sPid   == <<"p", "i", "d">>
sComma == <<",">>

Digits == <<"0", "1", "2", "3", "4", "5", "6", "7", "8", "9">>

\* str(n) of a natural number
RECURSIVE ToDecimal(_)
ToDecimal(n) ==
    IF n < 10 THEN <<Digits[n + 1]>>
    ELSE ToDecimal(n \div 10) \o <<Digits[(n % 10) + 1]>>

\* s.split(c): the fields of s between the occurrences of the character c
RECURSIVE Split(_, _)
Split(s, c) ==
    IF \A i \in 1..Len(s) : s[i] # c
    THEN <<s>>
    ELSE LET i == Min({k \in 1..Len(s) : s[k] = c})
         IN  <<SubSeq(s, 1, i - 1)>> \o Split(SubSeq(s, i + 1, Len(s)), c)

-----------------------------------------------------------------------------
(* The testcase configuration and the remote execution gateway *)

sClientPort == <<"2", "1", "8", "1">>

\* get_data_by_lookup_keyval(testcaseConfigsList, "entity_id", entityId,
\*     "clientPort"): the port of a zookeeper entity, nothing for the others
ClientPort(entityId) ==
    IF ClusterEntity(entityId).role = sZookeeper THEN sClientPort ELSE <<>>

\* get_data_from_list_of_dicts(clusterEntityConfigDictList, "role", role,
\*     "entity_id"): the ids of the entities of a role, in the order of the list
EntityIdsOfRole(role) ==
    LET HasRole(e) == e.role = role
        matching   == SelectSeq(clusterEntityConfigDictList, HasRole)
    IN  [i \in 1..Len(matching) |-> matching[i].entity_id]

\* The pids of the remote processes are those of user processes, far above
\* the small numbers that name the entities.
FirstPid == 11

\* The marker file of an entity (<logPathName>/entity_<id>_pid) and that of
\* its metrics collector (<metricsPathName>/entity_pid), on the entity's host.
EntityMarker(entityId)  == <<entityId, "entity">>
MetricsMarker(entityId) == <<entityId, "metrics">>
MarkerKeys == {EntityMarker(e) : e \in EntityIds} \cup {MetricsMarker(e) : e \in EntityIds}

\* system_test_utils.async_sys_call(cmd & echo pid:$! > marker): the command
\* is handed to the remote shell and the call returns at once
async_sys_call(marker) ==
    LET pid == FirstPid + Len(launches)
    IN  /\ jobs' = jobs \cup {[marker |-> marker, pid |-> pid]}
        /\ launches' = Append(launches, [marker |-> marker, pid |-> pid])
        /\ UNCHANGED markerFile

\* The marker file the harness is about to read, if any.
MarkerAboutToBeRead ==
    IF startPc = "slept" THEN {EntityMarker(startEntity)}
    ELSE IF startPc = "metrics_launched" THEN {MetricsMarker(startEntity)}
    ELSE {}

\* The remote shell runs a launch command: it backgrounds the process and
\* echo replaces the marker file by the line pid:<N>.  When it does so is not
\* in the harness's hands: before the read-back, or after it, or never.  A
\* marker file is looked at by its read-back alone, so the step is taken here
\* only when that read-back is next; taken earlier it would change nothing
\* that is observed.
RemoteShellWritesPid ==
    \E job \in jobs :
        /\ job.marker \in MarkerAboutToBeRead
        /\ markerFile' = [markerFile EXCEPT ![job.marker] = <<sPid \o sColon \o ToDecimal(job.pid)>>]
        /\ jobs' = jobs \ {job}
        /\ UNCHANGED launches

\* What the read-back may print instead of the marker file: the message of a
\* command that failed, or a line that only begins like a pid line.
UnexpectedOutputs == { << <<"c", "a", "t", ":", "?">> >>, << sPid >> }

\* system_test_utils.sys_call_return_subproc("ssh host 'cat marker'"): the
\* lines the command may print
sys_call_return_subproc(marker) == {markerFile[marker]} \cup UnexpectedOutputs

-----------------------------------------------------------------------------
(* Process Lifecycle Manager: start_entity_in_background *)

SettleDelay == 5

MaxRestarts == 1

InitLifecycleVars ==
    /\ entityParentPidDict = <<>>
    /\ zkConnectStr = <<>>
    /\ markerFile = [m \in MarkerKeys |-> <<>>]
    /\ jobs = {}
    /\ launches = <<>>
    /\ phase = "init"
    /\ startQueue = <<>>
    /\ startPc = "none"
    /\ startEntity = <<>>
    /\ readback = <<>>
    /\ startEvents = <<>>
    /\ startRaised = "none"
    /\ started = <<>>
    /\ returned = <<>>
    /\ restarts = 0

Event(op, marker, secs, output) ==
    [op |-> op, marker |-> marker, secs |-> secs, output |-> output,
     dict |-> entityParentPidDict]

NoMarker == <<<<>>, "none">>

\* the connection string recomputed from the entity alone, not accumulated
AppendedZkConnectStr_Overwritten(hostname, clientPort) ==
    hostname \o sColon \o clientPort

\* lines 411-416: the entity's endpoint appended to the connection string
AppendedZkConnectStr(hostname, clientPort) ==
    IF Len(zkConnectStr) > 0
    THEN zkConnectStr \o sComma \o hostname \o sColon \o clientPort
    ELSE hostname \o sColon \o clientPort

\* the call launching an entity of any role the way it launches a broker
start_entity_in_background_launch_AnyRole(entityId) ==
    LET hostname   == ClusterEntity(entityId).hostname
        role       == ClusterEntity(entityId).role
        clientPort == ClientPort(entityId)
    IN  /\ startPc = "none"
        /\ startRaised = "none"
        /\ startEntity' = entityId
        /\ started' = Append(started, entityId)
        /\ readback' = <<>>
        /\ IF role = sZookeeper
           THEN zkConnectStr' = AppendedZkConnectStr(hostname, clientPort)
           ELSE UNCHANGED zkConnectStr
        /\ jobs' = jobs \cup {[marker |-> <<entityId, "entity">>, pid |-> FirstPid + Len(launches)]}
        /\ launches' = Append(launches, [marker |-> <<entityId, "entity">>,
                                         pid |-> FirstPid + Len(launches)])
        /\ startEvents' = <<Event("async_sys_call", <<entityId, "entity">>, 0, <<>>)>>
        /\ startPc' = IF role = sZookeeper \/ role = sBroker THEN "launched" ELSE "none"
        /\ UNCHANGED <<markerFile, startRaised, entityParentPidDict, returned>>

\* lines 380-434: the call, up to and with the detached launch
start_entity_in_background_launch(entityId) ==
    LET hostname   == ClusterEntity(entityId).hostname
        role       == ClusterEntity(entityId).role
        clientPort == ClientPort(entityId)
    IN  /\ startPc = "none"
        /\ startRaised = "none"
        /\ startEntity' = entityId
        /\ started' = Append(started, entityId)
        /\ readback' = <<>>
        /\ IF role = sZookeeper
           THEN zkConnectStr' = AppendedZkConnectStr(hostname, clientPort)
           ELSE UNCHANGED zkConnectStr
        /\ IF role = sZookeeper \/ role = sBroker
           THEN /\ async_sys_call(EntityMarker(entityId))
                /\ startEvents' = <<Event("async_sys_call", EntityMarker(entityId), 0, <<>>)>>
                /\ startPc' = "launched"
                /\ UNCHANGED startRaised
           ELSE \* cmdList was never assigned
                /\ startRaised' = "UnboundLocalError"
                /\ startEvents' = <<>>
                /\ UNCHANGED <<markerVars, startPc>>
        /\ UNCHANGED <<entityParentPidDict, returned>>

\* start_entity_in_background without its time.sleep(5)
start_entity_in_background_sleep_Skipped ==
    /\ startPc = "launched"
    /\ startPc' = "slept"
    /\ UNCHANGED <<envVars, markerVars, phase, startQueue, startEntity, readback,
                   startEvents, startRaised, started, returned, restarts>>

\* line 435: time.sleep(5)
start_entity_in_background_sleep ==
    /\ startPc = "launched"
    /\ startEvents' = Append(startEvents, Event("sleep", NoMarker, SettleDelay, <<>>))
    /\ startPc' = "slept"
    /\ UNCHANGED <<envVars, markerVars, phase, startQueue, startEntity, readback,
                   startRaised, started, returned, restarts>>

\* lines 437-439: the marker file is read back by a second remote command
start_entity_in_background_readback ==
    /\ startPc = "slept"
    /\ \E output \in sys_call_return_subproc(EntityMarker(startEntity)) :
           /\ readback' = output
           /\ startEvents' = Append(startEvents,
                  Event("sys_call_return_subproc", EntityMarker(startEntity), 0, output))
    /\ startPc' = "read"
    /\ UNCHANGED <<envVars, markerVars, phase, startQueue, startEntity,
                   startRaised, started, returned, restarts>>

\* The loop over subproc.stdout.readlines() of lines 442-447 and 220-226,
\* from line k on: the value of tokens[1] for every line that starts with
\* "pid", in order, up to a line for which tokens[1] raises.
RECURSIVE PidLines(_, _)
PidLines(lines, k) ==
    IF k > Len(lines)
    THEN [pids |-> <<>>, raised |-> "none"]
    ELSE IF ~StartsWith(lines[k], sPid)
         THEN PidLines(lines, k + 1)
         ELSE LET tokens == Split(lines[k], ":")
                  rest   == PidLines(lines, k + 1)
              IN  IF Len(tokens) < 2
                  THEN [pids |-> <<>>, raised |-> "IndexError"]
                  ELSE [pids |-> <<tokens[2]>> \o rest.pids, raised |-> rest.raised]

\* line 447: entityParentPidDict[entityId] = tokens[1], for each pid in turn
RECURSIVE RegisterUnderEntityId(_, _, _)
RegisterUnderEntityId(dict, entityId, pids) ==
    IF pids = <<>> THEN dict
    ELSE RegisterUnderEntityId(DictSet(dict, entityId, Head(pids)), entityId, Tail(pids))

\* line 226: entityParentPidDict[thisPid] = thisPid, for each pid in turn
RECURSIVE RegisterUnderPid(_, _)
RegisterUnderPid(dict, pids) ==
    IF pids = <<>> THEN dict
    ELSE RegisterUnderPid(DictSet(dict, Head(pids), Head(pids)), Tail(pids))

\* the registration going on to start_metrics_collection whatever the role
start_entity_in_background_register_MetricsForAll ==
    LET result == PidLines(readback, 1)
    IN  /\ startPc = "read"
        /\ entityParentPidDict' = RegisterUnderEntityId(entityParentPidDict, startEntity, result.pids)
        /\ startRaised' = result.raised
        /\ startEvents' = Append(startEvents, Event("register", EntityMarker(startEntity), 0, readback))
        /\ startPc' = IF result.raised # "none" THEN "none" ELSE "registered"
        /\ UNCHANGED <<zkConnectStr, markerVars, phase, startQueue, startEntity, readback,
                       started, returned, restarts>>

\* lines 441-450: the pid is recorded under the entity id; a zookeeper's call
\* returns, a broker's goes on to start_metrics_collection
start_entity_in_background_register ==
    LET result == PidLines(readback, 1)
    IN  /\ startPc = "read"
        /\ entityParentPidDict' = RegisterUnderEntityId(entityParentPidDict, startEntity, result.pids)
        /\ startRaised' = result.raised
        /\ startEvents' = Append(startEvents, Event("register", EntityMarker(startEntity), 0, readback))
        /\ startPc' = IF result.raised # "none" THEN "none"
                      ELSE IF ClusterEntity(startEntity).role = sBroker THEN "registered"
                      ELSE "none"
        /\ returned' = IF result.raised = "none" /\ ClusterEntity(startEntity).role # sBroker
                       THEN Append(returned, startEntity) ELSE returned
        /\ UNCHANGED <<zkConnectStr, markerVars, phase, startQueue, startEntity, readback,
                       started, restarts>>

\* lines 196-213: start_metrics_collection launches the collector detached
start_metrics_collection_launch ==
    /\ startPc = "registered"
    /\ async_sys_call(MetricsMarker(startEntity))
    /\ startEvents' = Append(startEvents, Event("async_sys_call", MetricsMarker(startEntity), 0, <<>>))
    /\ startPc' = "metrics_launched"
    /\ UNCHANGED <<envVars, phase, startQueue, startEntity, readback, startRaised,
                   started, returned, restarts>>

\* lines 215-217: its marker file is read back
start_metrics_collection_readback ==
    /\ startPc = "metrics_launched"
    /\ \E output \in sys_call_return_subproc(MetricsMarker(startEntity)) :
           /\ readback' = output
           /\ startEvents' = Append(startEvents,
                  Event("sys_call_return_subproc", MetricsMarker(startEntity), 0, output))
    /\ startPc' = "metrics_read"
    /\ UNCHANGED <<envVars, markerVars, phase, startQueue, startEntity,
                   startRaised, started, returned, restarts>>

\* lines 219-226: the collector's pid is recorded under the pid itself; both
\* calls return
start_metrics_collection_register ==
    LET result == PidLines(readback, 1)
    IN  /\ startPc = "metrics_read"
        /\ entityParentPidDict' = RegisterUnderPid(entityParentPidDict, result.pids)
        /\ startRaised' = result.raised
        /\ startEvents' = Append(startEvents, Event("register", MetricsMarker(startEntity), 0, readback))
        /\ startPc' = "none"
        /\ returned' = IF result.raised = "none" THEN Append(returned, startEntity) ELSE returned
        /\ UNCHANGED <<zkConnectStr, markerVars, phase, startQueue, startEntity, readback,
                       started, restarts>>

-----------------------------------------------------------------------------
(* start_zookeepers, start_brokers and the testcase that calls them *)

\* start_zookeepers starting the first zookeeper only
start_zookeepers_call_FirstOnly ==
    /\ phase = "init"
    /\ phase' = "start_zookeepers"
    /\ startQueue' = SubSeq(EntityIdsOfRole(sZookeeper), 1, 1)
    /\ UNCHANGED <<envVars, markerVars, startPc, startEntity, readback, startEvents,
                   startRaised, started, returned, restarts>>

\* lines 305-309: start_zookeepers is called, first of all
start_zookeepers_call ==
    /\ phase = "init"
    /\ phase' = "start_zookeepers"
    /\ startQueue' = EntityIdsOfRole(sZookeeper)
    /\ UNCHANGED <<envVars, markerVars, startPc, startEntity, readback, startEvents,
                   startRaised, started, returned, restarts>>

\* lines 311-312 and 321-322: the next entity of the running loop is started
start_loop_next ==
    /\ phase \in {"start_zookeepers", "start_brokers"}
    /\ startQueue # <<>>
    /\ start_entity_in_background_launch(Head(startQueue))
    /\ startQueue' = Tail(startQueue)
    /\ UNCHANGED <<phase, restarts>>

\* the loop of start_zookeepers is through
start_zookeepers_return ==
    /\ phase = "start_zookeepers"
    /\ startQueue = <<>> /\ startPc = "none" /\ startRaised = "none"
    /\ phase' = "zookeepers_started"
    /\ UNCHANGED <<envVars, markerVars, startQueue, startPc, startEntity, readback,
                   startEvents, startRaised, started, returned, restarts>>

\* lines 315-319: start_brokers is called once start_zookeepers has returned
start_brokers_call ==
    /\ phase = "zookeepers_started"
    /\ phase' = "start_brokers"
    /\ startQueue' = EntityIdsOfRole(sBroker)
    /\ UNCHANGED <<envVars, markerVars, startPc, startEntity, readback, startEvents,
                   startRaised, started, returned, restarts>>

\* the loop of start_brokers is through
start_brokers_return ==
    /\ phase = "start_brokers"
    /\ startQueue = <<>> /\ startPc = "none" /\ startRaised = "none"
    /\ phase' = "brokers_started"
    /\ UNCHANGED <<envVars, markerVars, startQueue, startPc, startEntity, readback,
                   startEvents, startRaised, started, returned, restarts>>

\* A testcase that bounces an entity calls start_entity_in_background for it
\* again once the cluster is up.
restart_entity ==
    /\ phase = "brokers_started"
    /\ restarts < MaxRestarts
    /\ \E entityId \in Range(EntityIdsOfRole(sZookeeper)) \cup Range(EntityIdsOfRole(sBroker)) :
           start_entity_in_background_launch(entityId)
    /\ restarts' = restarts + 1
    /\ UNCHANGED <<phase, startQueue>>


-----------------------------------------------------------------------------
(* cleanup_data_at_remote_hosts *)

sTmp == <<"/", "t", "m", "p">>
sSsh == <<"s", "s", "h", " ">>
sRm  == <<" ", "'", "r", "m", " ", "-", "r", " ">>
sAll == <<"/", "*", "'">>

\* the entities that have a data directory
DataEntityIds ==
    {clusterEntityConfigDictList[i].entity_id : i \in
        {j \in 1..Len(clusterEntityConfigDictList) :
            clusterEntityConfigDictList[j].role \in {sZookeeper, sBroker}}}

\* The data directories a testcase configuration may name.
DataDirSamples ==
    { <<"/", "t", "m", "p", "/", "d">>,
      <<"/", "t", "m", "p", "d">>,
      <<"/", "d">>,
      <<>> }

InitCleanupVars ==
    /\ dataDirOf = [e \in DataEntityIds |-> <<"/", "t", "m", "p", "/", "d">>]
    /\ cleanupPc = "idle"
    /\ cleanupIdx = 0
    /\ cleanupCmds = <<>>
    /\ exitStatus = 0

\* lines 645-650: the call
cleanup_data_at_remote_hosts_call ==
    /\ cleanupPc = "idle"
    /\ cleanupPc' = "running"
    /\ cleanupIdx' = 1
    /\ cleanupCmds' = <<>>
    /\ UNCHANGED <<dataDirOf, exitStatus>>

\* the loop body without the check of the directory
cleanup_data_at_remote_hosts_entity_Unguarded ==
    LET entity   == clusterEntityConfigDictList[cleanupIdx]
        dataDir  == dataDirOf[entity.entity_id]
        cmdStr   == sSsh \o entity.hostname \o sRm \o dataDir \o sAll
    IN  /\ cleanupPc = "running"
        /\ cleanupIdx <= Len(clusterEntityConfigDictList)
        /\ cleanupIdx' = cleanupIdx + 1
        /\ IF entity.role = sZookeeper \/ entity.role = sBroker
           THEN cleanupCmds' = Append(cleanupCmds,
                    [cmdStr |-> cmdStr, hostname |-> entity.hostname,
                     dataDir |-> dataDir, index |-> cleanupIdx])
           ELSE UNCHANGED cleanupCmds
        /\ UNCHANGED <<dataDirOf, cleanupPc, exitStatus>>

\* the loop body taking a broker for a role without a data directory
cleanup_data_at_remote_hosts_entity_SkipsBrokers ==
    LET entity   == clusterEntityConfigDictList[cleanupIdx]
        dataDir  == dataDirOf[entity.entity_id]
        cmdStr   == sSsh \o entity.hostname \o sRm \o dataDir \o sAll
    IN  /\ cleanupPc = "running"
        /\ cleanupIdx <= Len(clusterEntityConfigDictList)
        /\ IF ~(entity.role = sZookeeper)
           THEN /\ cleanupIdx' = cleanupIdx + 1
                /\ UNCHANGED <<cleanupPc, cleanupCmds, exitStatus>>
           ELSE IF ~StartsWith(dataDir, sTmp)
           THEN /\ cleanupPc' = "exited"
                /\ exitStatus' = 1
                /\ UNCHANGED <<cleanupIdx, cleanupCmds>>
           ELSE /\ cleanupCmds' = Append(cleanupCmds,
                       [cmdStr |-> cmdStr, hostname |-> entity.hostname,
                        dataDir |-> dataDir, index |-> cleanupIdx])
                /\ cleanupIdx' = cleanupIdx + 1
                /\ UNCHANGED <<cleanupPc, exitStatus>>
        /\ UNCHANGED dataDirOf

\* lines 650-678: the loop body, for the entity the loop is at
cleanup_data_at_remote_hosts_entity ==
    LET entity   == clusterEntityConfigDictList[cleanupIdx]
        dataDir  == dataDirOf[entity.entity_id]
        cmdStr   == sSsh \o entity.hostname \o sRm \o dataDir \o sAll
    IN  /\ cleanupPc = "running"
        /\ cleanupIdx <= Len(clusterEntityConfigDictList)
        /\ IF ~(entity.role = sZookeeper \/ entity.role = sBroker)
           THEN \* continue
                /\ cleanupIdx' = cleanupIdx + 1
                /\ UNCHANGED <<cleanupPc, cleanupCmds, exitStatus>>
           ELSE IF ~StartsWith(dataDir, sTmp)
           THEN \* sys.exit(1)
                /\ cleanupPc' = "exited"
                /\ exitStatus' = 1
                /\ UNCHANGED <<cleanupIdx, cleanupCmds>>
           ELSE \* system_test_utils.sys_call(cmdStr)
                /\ cleanupCmds' = Append(cleanupCmds,
                       [cmdStr |-> cmdStr, hostname |-> entity.hostname,
                        dataDir |-> dataDir, index |-> cleanupIdx])
                /\ cleanupIdx' = cleanupIdx + 1
                /\ UNCHANGED <<cleanupPc, exitStatus>>
        /\ UNCHANGED dataDirOf

\* the loop is through
cleanup_data_at_remote_hosts_return ==
    /\ cleanupPc = "running"
    /\ cleanupIdx > Len(clusterEntityConfigDictList)
    /\ cleanupPc' = "returned"
    /\ UNCHANGED <<dataDirOf, cleanupIdx, cleanupCmds, exitStatus>>

-----------------------------------------------------------------------------
(* Log Fact Extractor: get_leader_elected_log_line *)

\* userDefinedEnvVarDict["LEADER_ELECTION_COMPLETED_MSG"], and
\* userDefinedEnvVarDict["REGX_LEADER_ELECTION_PATTERN"] = '(.)L(.)(.)(.)':
\* a one-character timestamp, the marker, then broker id, topic and partition.
sLeaderMsg == <<"L">>

\* re.match(pattern, line) is not None
LeaderPatternMatches(line) == Len(line) >= 5 /\ line[2] = "L"

\* matchObj.group(g)
LeaderPatternGroup(line, g) == IF g = 1 THEN <<line[1]>> ELSE <<line[g + 1]>>

\* datetime.strptime(datetimeStr, ...) raises ValueError unless the text has
\* the format of a timestamp
IsTimestamp(datetimeStr) == Len(datetimeStr) = 1 /\ datetimeStr[1] \in Range(Digits)

\* time.mktime(...) + 1e-6 * microsecond: the number the timestamp stands for
UnixTs(datetimeStr) == (CHOOSE i \in 1..Len(Digits) : Digits[i] = datetimeStr[1]) - 1

\* The characters of the log lines, in the order of their codes.
Alphabet == Digits \o <<"L", "b", "c", "l", "p", "q", "t", "x", "z">>

CharCode(c) == CHOOSE i \in 1..Len(Alphabet) : Alphabet[i] = c

RECURSIVE LexLess(_, _)
LexLess(s, t) ==
    IF t = <<>> THEN FALSE
    ELSE IF s = <<>> THEN TRUE
    ELSE IF s[1] # t[1] THEN CharCode(s[1]) < CharCode(t[1])
    ELSE LexLess(Tail(s), Tail(t))

ToLower(s) == [i \in 1..Len(s) |-> IF s[i] = "L" THEN "l" ELSE s[i]]

\* ssh host "grep -i -h '<msg>' <log> | sort | tail -1": the last, in sorted
\* order, of the lines that hold the marker in whatever case; no line if none
grep_sort_tail(logLines) ==
    LET matching == {logLines[i] : i \in {j \in 1..Len(logLines) :
                         Contains(ToLower(logLines[j]), ToLower(sLeaderMsg))}}
    IN  IF matching = {} THEN <<>>
        ELSE <<CHOOSE line \in matching : \A other \in matching : ~LexLess(line, other)>>

\* the fields taken from the groups with topic and partition exchanged
LeaderDictAfterLine_GroupsExchanged(dict, line) ==
    IF ~Contains(line, sLeaderMsg) THEN dict
    ELSE IF ~LeaderPatternMatches(line) THEN dict
    ELSE IF ~IsTimestamp(LeaderPatternGroup(line, 1)) THEN dict
    ELSE DictSet(DictSet(DictSet(DictSet(dict,
             "timestamp", UnixTs(LeaderPatternGroup(line, 1))),
             "brokerid",  LeaderPatternGroup(line, 2)),
             "topic",     LeaderPatternGroup(line, 4)),
             "partition", LeaderPatternGroup(line, 3))

\* lines 361-373: what a line of the output does to leaderDict
LeaderDictAfterLine(dict, line) ==
    IF ~Contains(line, sLeaderMsg) THEN dict
    ELSE IF ~LeaderPatternMatches(line) THEN dict      \* AttributeError, caught
    ELSE IF ~IsTimestamp(LeaderPatternGroup(line, 1)) THEN dict  \* ValueError, caught
    ELSE DictSet(DictSet(DictSet(DictSet(dict,
             "timestamp", UnixTs(LeaderPatternGroup(line, 1))),
             "brokerid",  LeaderPatternGroup(line, 2)),
             "topic",     LeaderPatternGroup(line, 3)),
             "partition", LeaderPatternGroup(line, 4))

RECURSIVE LeaderDictAfterLines(_, _)
LeaderDictAfterLines(dict, lines) ==
    IF lines = <<>> THEN dict
    ELSE LeaderDictAfterLines(LeaderDictAfterLine(dict, Head(lines)), Tail(lines))

\* lines 333-335: the ids of the brokers of the topology, in its order
TopologyBrokerIds ==
    LET IsBroker(e) == e.role = sBroker
        brokers     == SelectSeq(clusterConfigsList, IsBroker)
    IN  [i \in 1..Len(brokers) |-> brokers[i].entity_id]

\* lines 339-340: the hostname of the first entity of the topology with the id
TopologyHostname(entityId) ==
    clusterConfigsList[Min({i \in 1..Len(clusterConfigsList) :
                               clusterConfigsList[i].entity_id = entityId})].hostname

\* lines 337-375: the loop over the brokers, from the k-th on
RECURSIVE LeaderDictAfterBrokers(_, _, _, _)
LeaderDictAfterBrokers(dict, brokerEntityIdList, logs, k) ==
    IF k > Len(brokerEntityIdList) THEN dict
    ELSE LET brokerEntityId == brokerEntityIdList[k]
             named == DictSet(DictSet(dict, "entity_id", brokerEntityId),
                              "hostname", TopologyHostname(brokerEntityId))
         IN  LeaderDictAfterBrokers(
                 LeaderDictAfterLines(named, grep_sort_tail(logs[brokerEntityId])),
                 brokerEntityIdList, logs, k + 1)

\* lines 325-377
get_leader_elected_log_line ==
    /\ leaderDict' = LeaderDictAfterBrokers(<<>>, TopologyBrokerIds, brokerLog, 1)
    /\ lastCall' = [NoCall EXCEPT !.fn = "get_leader_elected_log_line", !.ret = "returned"]
    /\ UNCHANGED <<brokerLog, producerLog, consumerLog, missingLog, validationStatusDict>>

MaxBrokerLines == 2

\* The lines a broker log is drawn from.
LeaderLogLines ==
    { <<"1", "L", "b", "t", "p">>,
      <<"2", "L", "c", "t", "q">>,
      <<"x", "L", "b", "t", "p">>,
      <<"3", "L">>,
      <<"4", "l", "b", "t", "p">>,
      <<"z", "z">> }

BrokerLogsLine ==
    \E b \in DOMAIN brokerLog :
        /\ Len(brokerLog[b]) < MaxBrokerLines
        /\ \E line \in LeaderLogLines :
               brokerLog' = [brokerLog EXCEPT ![b] = Append(brokerLog[b], line)]
        /\ lastCall' = NoCall
        /\ UNCHANGED <<leaderDict, producerLog, consumerLog, missingLog, validationStatusDict>>

InitLeaderVars ==
    /\ brokerLog = [b \in Range(EntityIdsOfRole(sBroker)) |-> <<>>]
    /\ leaderDict = <<>>

-----------------------------------------------------------------------------
(* Validation Engine: validate_leader_election_successful *)

LeaderFields == {"entity_id", "hostname", "timestamp", "brokerid", "topic", "partition"}

\* The fields the body of the try block reads, in the order it reads them
\* (lines 625-631), apart from the pid, which it looks up.
LeaderFieldsRead == {"brokerid", "entity_id", "hostname", "partition"}

\* validate_leader_election_successful without the look-up of the pid
validate_leader_election_successful_NoPidLookup ==
    LET complete == LeaderFieldsRead \subseteq DOMAIN leaderDict
    IN  /\ IF DOMAIN leaderDict # {} /\ complete
           THEN /\ validationStatusDict' = DictSet(validationStatusDict, LeaderElectionKey, "PASSED")
                /\ lastCall' = [NoCall EXCEPT !.fn = "validate_leader_election_successful",
                                              !.ret = "True"]
           ELSE /\ validationStatusDict' = DictSet(validationStatusDict, LeaderElectionKey, "FAILED")
                /\ lastCall' = [NoCall EXCEPT !.fn = "validate_leader_election_successful",
                                              !.ret = "False"]
        /\ UNCHANGED <<leaderVars, producerLog, consumerLog, missingLog>>

\* lines 621-642
validate_leader_election_successful ==
    LET complete == /\ LeaderFieldsRead \subseteq DOMAIN leaderDict
                    /\ leaderDict["entity_id"] \in DOMAIN entityParentPidDict
    IN  /\ IF DOMAIN leaderDict # {} /\ complete
           THEN /\ validationStatusDict' = DictSet(validationStatusDict, LeaderElectionKey, "PASSED")
                /\ lastCall' = [NoCall EXCEPT !.fn = "validate_leader_election_successful",
                                              !.ret = "True"]
           ELSE \* KeyError caught (lines 634-639), or the empty fact (lines 641-642)
                /\ validationStatusDict' = DictSet(validationStatusDict, LeaderElectionKey, "FAILED")
                /\ lastCall' = [NoCall EXCEPT !.fn = "validate_leader_election_successful",
                                              !.ret = "False"]
        /\ UNCHANGED <<leaderVars, producerLog, consumerLog, missingLog>>

FullFact ==
    ("entity_id" :> <<"1">>) @@ ("hostname" :> <<"h", "1">>) @@ ("timestamp" :> 1) @@
    ("brokerid" :> <<"b">>) @@ ("topic" :> <<"t">>) @@ ("partition" :> <<"p">>)

Restrict(f, D) == [k \in D |-> f[k]]

\* The leader facts a caller may hand over: the empty one, a full one, one
\* that lacks a single field, and one that names an entity never started.
FactSamples ==
    {<<>>, FullFact, DictSet(FullFact, "entity_id", <<"5">>)}
        \cup {Restrict(FullFact, LeaderFields \ {f}) : f \in LeaderFields}

CallerBuildsFact ==
    /\ \E fact \in FactSamples : leaderDict' = fact
    /\ lastCall' = NoCall
    /\ UNCHANGED <<brokerLog, producerLog, consumerLog, missingLog, validationStatusDict>>

\* entityParentPidDict as a start-up may have left it: nothing on record, or
\* the broker's pid.
PidDictSamples == {<<>>, DictSet(<<>>, <<"1">>, ToDecimal(FirstPid + 3))}

-----------------------------------------------------------------------------
(* Config Materializer: generate_overriden_props_files *)

sEq           == <<"=">>
sNewline      == <<"\n">>
sZkConnect    == <<"z", "k", ".", "c", "o", "n", "n", "e", "c", "t">>
sBrokerinfo   == <<"b", "r", "o", "k", "e", "r", "i", "n", "f", "o">>
sEntityIdKey  == <<"e", "n", "t", "i", "t", "y", "_", "i", "d">>
sConfigFilenameKey == <<"c", "o", "n", "f", "i", "g", "_", "f", "i", "l", "e", "n", "a", "m", "e">>
sClientPortKey == <<"c", "l", "i", "e", "n", "t", "P", "o", "r", "t">>
sUnknownRole  == <<"m", "i", "g", "r", "a", "t", "i", "o", "n", "_", "t", "o", "o", "l">>

\* a matching line replaced by the value alone
RECURSIVE RenderLine_ValueOnly(_, _, _)
RenderLine_ValueOnly(line, dictObj, keys) ==
    IF keys = <<>> THEN line
    ELSE LET key == Head(keys)
         IN  RenderLine_ValueOnly(IF StartsWith(line, key \o sEq)
                                  THEN dictObj[key] \o sNewline
                                  ELSE line,
                                  dictObj, Tail(keys))

\* lines 188-191: a template line after the loop over dictObj.keys(), taken
\* in the order keys
RECURSIVE RenderLine(_, _, _)
RenderLine(line, dictObj, keys) ==
    IF keys = <<>> THEN line
    ELSE LET key == Head(keys)
         IN  RenderLine(IF StartsWith(line, key \o sEq)
                        THEN key \o sEq \o dictObj[key] \o sNewline
                        ELSE line,
                        dictObj, Tail(keys))

\* lines 182-193: the lines written to destFile
copy_file_with_dict_values(inlines, dictObj, keys) ==
    [i \in 1..Len(inlines) |-> RenderLine(inlines[i], dictObj, keys)]

\* lines 257-284: the template of a role, or none for a role that is not handled
TemplateOf(role) ==
    IF role = sBroker THEN "server.properties"
    ELSE IF role = sZookeeper THEN "zookeeper.properties"
    ELSE IF role = sProducer THEN "producer_performance.properties"
    ELSE IF role = sConsumer THEN "console_consumer.properties"
    ELSE "none"

TemplateNames == {"server.properties", "zookeeper.properties",
                  "producer_performance.properties", "console_consumer.properties"}

\* The templates of the testsuite: key=value lines.
TemplateLines(name) ==
    IF name = "server.properties"
    THEN << <<"z", "k", ".", "c", "o", "n", "n", "e", "c", "t", "=", "O", "L", "D", "\n">>, <<"b", "r", "o", "k", "e", "r", "i", "d", "=", "0", "\n">> >>
    ELSE IF name = "zookeeper.properties"
    THEN << <<"c", "l", "i", "e", "n", "t", "P", "o", "r", "t", "=", "0", "\n">>, <<"z", "k", ".", "c", "o", "n", "n", "e", "c", "t", "=", "x", "\n">> >>
    ELSE IF name = "producer_performance.properties"
    THEN << <<"b", "r", "o", "k", "e", "r", "i", "n", "f", "o", "=", "O", "L", "D", "\n">>, <<"t", "o", "p", "i", "c", "=", "t", "\n">> >>
    ELSE << <<"z", "o", "o", "k", "e", "e", "p", "e", "r", "=", "O", "L", "D", "\n">>, <<"t", "o", "p", "i", "c", "=", "t">> >>

\* The testcase configuration of an entity as the testcase file gives it.
TestcaseConfigOf(entity) ==
    LET base == (sEntityIdKey :> entity.entity_id) @@
                (sConfigFilenameKey :> (entity.entity_id \o <<".", "p">>))
    IN  IF entity.role = sZookeeper THEN base @@ (sClientPortKey :> sClientPort) ELSE base

\* The topologies of the testcases: the cluster as it is, and the cluster
\* with an entity of a role the harness does not know.
ClusterSamples ==
    { clusterEntityConfigDictList,
      SubSeq(clusterEntityConfigDictList, 1, 2)
          \o <<[entity_id |-> <<"6">>, role |-> sUnknownRole, hostname |-> <<"h", "3">>]>>
          \o SubSeq(clusterEntityConfigDictList, 3, Len(clusterEntityConfigDictList)) }

\* The cluster with a second broker, on another host.
ClusterOfTwoBrokers ==
    clusterEntityConfigDictList
        \o <<[entity_id |-> <<"7">>, role |-> sBroker, hostname |-> <<"h", "2">>]>>

InitPropsVars ==
    /\ clusterConfigsList = clusterEntityConfigDictList
    /\ tcConfigsList = [i \in 1..Len(clusterEntityConfigDictList) |->
                           TestcaseConfigOf(clusterEntityConfigDictList[i])]
    /\ templateFiles = [name \in TemplateNames |-> TemplateLines(name)]
    /\ destFiles = <<>>
    /\ propsPc = "idle"
    /\ propsIdx = 0
    /\ propsZkConnectStr = <<>>
    /\ propsEvents = <<>>

\* lines 241-254: the connection string of the zookeepers of the topology,
\* from the k-th entity on
RECURSIVE PropsZkConnectStr(_, _, _, _)
PropsZkConnectStr(str, clusterList, tcList, k) ==
    IF k > Len(clusterList) THEN str
    ELSE IF clusterList[k].role # sZookeeper
    THEN PropsZkConnectStr(str, clusterList, tcList, k + 1)
    ELSE LET hostname   == clusterList[k].hostname
             matching   == SelectSeq(tcList,
                               LAMBDA tc : tc[sEntityIdKey] = clusterList[k].entity_id)
             clientPort == matching[1][sClientPortKey]
         IN  PropsZkConnectStr(IF Len(str) = 0
                               THEN hostname \o sColon \o clientPort
                               ELSE str \o sComma \o hostname \o sColon \o clientPort,
                               clusterList, tcList, k + 1)

\* lines 229-254: the call, up to the loop over the cluster entities
generate_overriden_props_files_call ==
    /\ propsPc = "idle"
    /\ IF \A k \in 1..Len(clusterConfigsList) :
              clusterConfigsList[k].role = sZookeeper =>
                  \E i \in 1..Len(tcConfigsList) :
                      /\ tcConfigsList[i][sEntityIdKey] = clusterConfigsList[k].entity_id
                      /\ sClientPortKey \in DOMAIN tcConfigsList[i]
       THEN /\ propsZkConnectStr' = PropsZkConnectStr(<<>>, clusterConfigsList, tcConfigsList, 1)
            /\ propsPc' = "rendering"
            /\ propsIdx' = 1
       ELSE \* clientPortList[0] raises IndexError
            /\ propsPc' = "raised"
            /\ UNCHANGED <<propsZkConnectStr, propsIdx>>
    /\ UNCHANGED <<clusterConfigsList, tcConfigsList, templateFiles, destFiles, propsEvents>>

\* the connection string injected under the key zk.connect whatever the role
InjectedConfig_SameKeyForAll(tcCfg, role, zkStr) ==
    IF role \in {sBroker, sProducer, sConsumer} THEN DictSet(tcCfg, sZkConnect, zkStr)
    ELSE tcCfg

\* lines 264-280: the computed field the role gets before its file is rendered
InjectedConfig(tcCfg, role, zkStr) ==
    IF role = sBroker THEN DictSet(tcCfg, sZkConnect, zkStr)
    ELSE IF role = sProducer THEN DictSet(tcCfg, sBrokerinfo, sZkConnect \o sEq \o zkStr)
    ELSE IF role = sConsumer THEN DictSet(tcCfg, sZookeeper, zkStr)
    ELSE tcCfg

\* lines 257-284: one round of the loop over the cluster entities; the ids of
\* the testcase configurations are unique, so the inner loop meets at most one
generate_overriden_props_files_entity ==
    /\ propsPc = "rendering"
    /\ propsIdx <= Len(clusterConfigsList)
    /\ LET clusterCfg == clusterConfigsList[propsIdx]
           role       == clusterCfg.role
           hits       == {i \in 1..Len(tcConfigsList) :
                             tcConfigsList[i][sEntityIdKey] = clusterCfg.entity_id}
       IN  IF hits = {}
           THEN /\ propsIdx' = propsIdx + 1
                /\ UNCHANGED <<tcConfigsList, destFiles, propsPc, propsEvents>>
           ELSE LET i     == CHOOSE h \in hits : TRUE
                    tcCfg == InjectedConfig(tcConfigsList[i], role, propsZkConnectStr)
                    name  == TemplateOf(role)
                IN  IF name = "none"
                    THEN \* lines 282-284: two lines are printed, the loop goes on
                         /\ propsEvents' = Append(propsEvents,
                                [op |-> "print UNHANDLED key", entity_id |-> clusterCfg.entity_id,
                                 hostname |-> clusterCfg.hostname])
                         /\ propsIdx' = propsIdx + 1
                         /\ UNCHANGED <<tcConfigsList, destFiles, propsPc>>
                    ELSE /\ tcConfigsList' = [tcConfigsList EXCEPT ![i] = tcCfg]
                         /\ IF name \in DOMAIN templateFiles
                            THEN /\ \E keys \in Perms(DOMAIN tcCfg) :
                                        destFiles' = DictSet(destFiles, tcCfg[sConfigFilenameKey],
                                            copy_file_with_dict_values(templateFiles[name], tcCfg, keys))
                                 /\ propsEvents' = Append(propsEvents,
                                        [op |-> "render", entity_id |-> clusterCfg.entity_id,
                                         hostname |-> clusterCfg.hostname])
                                 /\ propsIdx' = propsIdx + 1
                                 /\ UNCHANGED propsPc
                            ELSE \* open(srcFile, "r") raises IOError
                                 /\ propsPc' = "raised"
                                 /\ UNCHANGED <<destFiles, propsIdx, propsEvents>>
    /\ UNCHANGED <<clusterConfigsList, templateFiles, propsZkConnectStr>>

\* line 287: the loop is through, scp_file_to_remote_host is called
generate_overriden_props_files_distribute ==
    /\ propsPc = "rendering"
    /\ propsIdx > Len(clusterConfigsList)
    /\ propsPc' = "distributing"
    /\ propsIdx' = 1
    /\ UNCHANGED <<clusterConfigsList, tcConfigsList, templateFiles, destFiles,
                   propsZkConnectStr, propsEvents>>

\* lines 296-302: one round of the loop of scp_file_to_remote_host
scp_file_to_remote_host_entity ==
    /\ propsPc = "distributing"
    /\ propsIdx <= Len(clusterConfigsList)
    /\ propsEvents' = Append(propsEvents,
           [op |-> "scp", entity_id |-> clusterConfigsList[propsIdx].entity_id,
            hostname |-> clusterConfigsList[propsIdx].hostname])
    /\ propsIdx' = propsIdx + 1
    /\ UNCHANGED <<clusterConfigsList, tcConfigsList, templateFiles, destFiles,
                   propsPc, propsZkConnectStr>>

\* both loops are through: the calls return
generate_overriden_props_files_return ==
    /\ propsPc = "distributing"
    /\ propsIdx > Len(clusterConfigsList)
    /\ propsPc' = "returned"
    /\ UNCHANGED <<clusterConfigsList, tcConfigsList, templateFiles, destFiles,
                   propsIdx, propsZkConnectStr, propsEvents>>

-----------------------------------------------------------------------------
(* get_testcase_config_log_dir_pathname *)

sSlash      == <<"/">>
sDash       == <<"-">>
sMetrics    == <<"m", "e", "t", "r", "i", "c", "s">>
sDefault    == <<"d", "e", "f", "a", "u", "l", "t">>
sDashboards == <<"d", "a", "s", "h", "b", "o", "a", "r", "d", "s">>
sConfig     == <<"c", "o", "n", "f", "i", "g">>
sUnrecognizedType == <<"u", "n", "r", "e", "c", "o", "g", "n", "i", "z", "e", "d", " ", "l", "o", "g", " ", "d", "i", "r", "e", "c", "t", "o", "r", "y", " ", "t", "y", "p", "e", " ", ":", " ">>
sReturningDefault == <<"r", "e", "t", "u", "r", "n", "i", "n", "g", " ", "d", "e", "f", "a", "u", "l", "t", " ", "l", "o", "g", " ", "d", "i", "r", " ", ":", " ">>

\* lines 56-72: the unrecognized type gives the metrics directory
LogDirPathname_MetricsForUnknown(testCaseLogsDir, testCaseBaseDir, role, entityId, type) ==
    LET defaultLogDir == testCaseLogsDir \o sSlash \o role \o sDash \o entityId
    IN  IF type = sMetrics THEN testCaseLogsDir \o sSlash \o role \o sDash \o entityId \o sSlash \o sMetrics
        ELSE IF type = sDefault THEN testCaseLogsDir \o sSlash \o role \o sDash \o entityId
        ELSE IF type = sDashboards THEN testCaseLogsDir \o sSlash \o sDashboards
        ELSE IF type = sConfig THEN testCaseBaseDir \o sSlash \o sConfig
        ELSE defaultLogDir \o sSlash \o sMetrics

\* lines 56-72: the value returned
LogDirPathname(testCaseLogsDir, testCaseBaseDir, role, entityId, type) ==
    LET defaultLogDir == testCaseLogsDir \o sSlash \o role \o sDash \o entityId
    IN  IF type = sMetrics THEN testCaseLogsDir \o sSlash \o role \o sDash \o entityId \o sSlash \o sMetrics
        ELSE IF type = sDefault THEN testCaseLogsDir \o sSlash \o role \o sDash \o entityId
        ELSE IF type = sDashboards THEN testCaseLogsDir \o sSlash \o sDashboards
        ELSE IF type = sConfig THEN testCaseBaseDir \o sSlash \o sConfig
        ELSE defaultLogDir

\* lines 69-71: the two errors logged for an unrecognized type
LogDirErrors(testCaseLogsDir, role, entityId, type) ==
    IF type \in {sMetrics, sDefault, sDashboards, sConfig} THEN <<>>
    ELSE << sUnrecognizedType \o type,
            sReturningDefault \o testCaseLogsDir \o sSlash \o role \o sDash \o entityId >>

get_testcase_config_log_dir_pathname ==
    /\ pathReturn = "none"
    /\ pathReturn' = LogDirPathname(pathArgs.testCaseLogsDir, pathArgs.testCaseBaseDir,
                                    pathArgs.role, pathArgs.entityId, pathArgs.type)
    /\ pathLogged' = LogDirErrors(pathArgs.testCaseLogsDir, pathArgs.role, pathArgs.entityId,
                                  pathArgs.type)
    /\ UNCHANGED pathArgs

LogsDirSamples  == {<<"/", "t", "/", "l", "o", "g", "s">>, <<"/", "l">>}
BaseDirSamples  == {<<"/", "t">>, <<"/", "b">>}
RoleSamples     == {sBroker, sZookeeper}
EntityIdSamples == {<<"0">>, <<"1">>, <<"1", "0">>}
TypeSamples     == {sMetrics, sDefault, sDashboards, sConfig, <<"l", "o", "g", "s">>, <<>>, <<"M", "e", "t", "r", "i", "c", "s">>}

InitPathVars ==
    /\ pathArgs = [testCaseLogsDir |-> <<"/", "t", "/", "l", "o", "g", "s">>, testCaseBaseDir |-> <<"/", "t">>, role |-> sBroker,
                   entityId |-> <<"1">>, type |-> sDefault]
    /\ pathReturn = "none"
    /\ pathLogged = <<>>

-----------------------------------------------------------------------------
(* Specifications *)

\* The start-up of the cluster.
InitStart == InitValidationVars /\ InitProcVars /\ InitPathVars /\ InitStopVars /\ InitLifecycleVars /\ InitCleanupVars /\ InitLeaderVars /\ InitPropsVars

NextStart ==
    \/ start_zookeepers_call
    \/ start_loop_next
    \/ start_zookeepers_return
    \/ start_brokers_call
    \/ start_brokers_return
    \/ restart_entity
    \/ start_entity_in_background_sleep
    \/ start_entity_in_background_readback
    \/ start_entity_in_background_register
    \/ start_metrics_collection_launch
    \/ start_metrics_collection_readback
    \/ start_metrics_collection_register
    \/ RemoteShellWritesPid /\ UNCHANGED <<envVars, startVars>>

Spec == InitStart /\ [][NextStart /\ UNCHANGED <<validationVars, procVars, stopVars, cleanupVars, leaderVars, propsVars, pathVars>>]_vars

\* The validation of the producer's and the consumer's logs.
NextValidation ==
    \/ ProducerWritesLine /\ UNCHANGED <<procVars, stopVars, lifecycleVars, cleanupVars, leaderVars, propsVars, pathVars>>
    \/ ConsumerWritesLine /\ UNCHANGED <<procVars, stopVars, lifecycleVars, cleanupVars, leaderVars, propsVars, pathVars>>
    \/ validate_data_matched /\ UNCHANGED <<procVars, stopVars, lifecycleVars, cleanupVars, leaderVars, propsVars, pathVars>>

InitValidation == InitValidationVars /\ InitProcVars /\ InitPathVars /\ InitStopVars /\ InitLifecycleVars /\ InitCleanupVars /\ InitLeaderVars /\ InitPropsVars

SpecValidation == InitValidation /\ [][NextValidation]_vars

\* The stopping of entities.
InitStop == InitValidationVars /\ InitProcVars /\ InitPathVars /\ InitStopVars /\ InitLifecycleVars /\ InitCleanupVars /\ InitLeaderVars /\ InitPropsVars

NextStop ==
    \/ RemoteProcessStarts /\ UNCHANGED <<validationVars, stopVars, lifecycleVars, cleanupVars, leaderVars, propsVars, pathVars>>
    \/ RemoteProcessExits /\ UNCHANGED <<validationVars, stopVars, lifecycleVars, cleanupVars, leaderVars, propsVars, pathVars>>
    \/ stop_remote_entity /\ UNCHANGED <<validationVars, lifecycleVars, cleanupVars, leaderVars, propsVars, pathVars>>

SpecStop == InitStop /\ [][NextStop]_vars


\* The cleanup of the data directories, for every testcase configuration.
InitCleanup ==
    /\ InitValidationVars /\ InitProcVars /\ InitPathVars /\ InitStopVars /\ InitLifecycleVars
    /\ InitLeaderVars /\ InitPropsVars
    /\ dataDirOf \in [DataEntityIds -> DataDirSamples]
    /\ cleanupPc = "idle"
    /\ cleanupIdx = 0
    /\ cleanupCmds = <<>>
    /\ exitStatus = 0

NextCleanup ==
    \/ cleanup_data_at_remote_hosts_call
    \/ cleanup_data_at_remote_hosts_entity
    \/ cleanup_data_at_remote_hosts_return

SpecCleanup ==
    InitCleanup /\ [][NextCleanup /\ UNCHANGED <<validationVars, procVars, stopVars, lifecycleVars, leaderVars, propsVars, pathVars>>]_vars

\* The testcase state once the start-up is over.
InitStartedEnv ==
    /\ entityParentPidDict \in PidDictSamples
    /\ zkConnectStr = <<>>
    /\ markerFile = [m \in MarkerKeys |-> <<>>]
    /\ jobs = {}
    /\ launches = <<>>
    /\ phase = "brokers_started"
    /\ startQueue = <<>>
    /\ startPc = "none"
    /\ startEntity = <<>>
    /\ readback = <<>>
    /\ startEvents = <<>>
    /\ startRaised = "none"
    /\ started = <<>>
    /\ returned = <<>>
    /\ restarts = 0

\* The extraction and the validation of leader facts.
InitLeader ==
    /\ InitValidationVars /\ InitProcVars /\ InitPathVars /\ InitStopVars /\ InitCleanupVars /\ InitLeaderVars /\ InitPropsVars
    /\ InitStartedEnv

NextLeader ==
    \/ BrokerLogsLine
    \/ get_leader_elected_log_line
    \/ CallerBuildsFact
    \/ validate_leader_election_successful

SpecLeader ==
    InitLeader /\ [][NextLeader /\ UNCHANGED <<procVars, stopVars, lifecycleVars, cleanupVars, propsVars, pathVars>>]_vars

\* The two validations of a testcase, on logs of at most one line each.
OneLineLogs == {<<>>} \cup {<<line>> : line \in LogLines}

InitVerdicts ==
    /\ producerLog \in OneLineLogs
    /\ consumerLog \in OneLineLogs
    /\ missingLog = <<>>
    /\ validationStatusDict = <<>>
    /\ lastCall = NoCall
    /\ InitProcVars /\ InitPathVars /\ InitStopVars /\ InitCleanupVars /\ InitLeaderVars /\ InitPropsVars
    /\ InitStartedEnv

NextVerdicts ==
    \/ validate_data_matched /\ UNCHANGED leaderVars
    \/ CallerBuildsFact
    \/ validate_leader_election_successful

SpecVerdicts ==
    InitVerdicts /\ [][NextVerdicts /\ UNCHANGED <<procVars, stopVars, lifecycleVars, cleanupVars, propsVars, pathVars>>]_vars

\* The materialization of the configuration files, for every topology, every
\* testcase configuration that lacks the settings of at most one entity, and
\* every set of templates that lacks at most one.
InitProps ==
    /\ InitValidationVars /\ InitProcVars /\ InitPathVars /\ InitStopVars /\ InitLifecycleVars
    /\ InitCleanupVars /\ InitLeaderVars
    /\ clusterConfigsList \in ClusterSamples
    /\ \E without \in 0..Len(clusterConfigsList) :
           tcConfigsList = [i \in 1..Len(SelectSeq(clusterConfigsList,
                                   LAMBDA e : without = 0 \/ e # clusterConfigsList[without])) |->
                               TestcaseConfigOf(SelectSeq(clusterConfigsList,
                                   LAMBDA e : without = 0 \/ e # clusterConfigsList[without])[i])]
    /\ \E missing \in SUBSET TemplateNames :
           /\ Cardinality(missing) <= 1
           /\ templateFiles = [name \in TemplateNames \ missing |-> TemplateLines(name)]
    /\ destFiles = <<>>
    /\ propsPc = "idle"
    /\ propsIdx = 0
    /\ propsZkConnectStr = <<>>
    /\ propsEvents = <<>>

NextProps ==
    \/ generate_overriden_props_files_call
    \/ generate_overriden_props_files_entity
    \/ generate_overriden_props_files_distribute
    \/ scp_file_to_remote_host_entity
    \/ generate_overriden_props_files_return

SpecProps ==
    InitProps /\ [][NextProps /\ UNCHANGED <<validationVars, procVars, stopVars, lifecycleVars,
                                             cleanupVars, leaderVars, pathVars>>]_vars

\* The extraction of the leader fact in a cluster of two brokers.
InitElection ==
    /\ InitValidationVars /\ InitProcVars /\ InitPathVars /\ InitStopVars /\ InitCleanupVars
    /\ InitStartedEnv
    /\ clusterConfigsList = ClusterOfTwoBrokers
    /\ tcConfigsList = [i \in 1..Len(clusterConfigsList) |-> TestcaseConfigOf(clusterConfigsList[i])]
    /\ templateFiles = [name \in TemplateNames |-> TemplateLines(name)]
    /\ destFiles = <<>>
    /\ propsPc = "idle"
    /\ propsIdx = 0
    /\ propsZkConnectStr = <<>>
    /\ propsEvents = <<>>
    /\ brokerLog = [b \in Range(TopologyBrokerIds) |-> <<>>]
    /\ leaderDict = <<>>

NextElection ==
    \/ BrokerLogsLine
    \/ get_leader_elected_log_line

SpecElection ==
    InitElection /\ [][NextElection /\ UNCHANGED <<procVars, stopVars, lifecycleVars, cleanupVars,
                                                   propsVars, pathVars>>]_vars

\* The set-up of a testcase: the configuration files are materialized, then
\* the cluster is started.
InitSetup == InitStart

NextSetup ==
    \/ phase = "init" /\ NextProps /\ UNCHANGED lifecycleVars
    \/ propsPc = "returned" /\ NextStart /\ UNCHANGED propsVars

SpecSetup ==
    InitSetup /\ [][NextSetup /\ UNCHANGED <<validationVars, procVars, stopVars, cleanupVars,
                                             leaderVars, pathVars>>]_vars

\* A testcase that stops entities and validates the leader fact it holds.

\* stop_remote_entity dropping the pid on record of the entity it has stopped
stop_remote_entity_in_testcase_ForgetsPid ==
    /\ stop_remote_entity
    /\ entityParentPidDict' =
           IF stopPc' = "idle"
           THEN [e \in DOMAIN entityParentPidDict \ {stopArgs.entityId} |-> entityParentPidDict[e]]
           ELSE entityParentPidDict
    /\ UNCHANGED <<zkConnectStr, validationStatusDict>>

\* lines 521-530: stop_remote_entity is not handed testcaseEnv
stop_remote_entity_in_testcase ==
    /\ stop_remote_entity
    /\ UNCHANGED <<entityParentPidDict, zkConnectStr, validationStatusDict>>

InitBounce ==
    /\ InitValidationVars /\ InitProcVars /\ InitPathVars /\ InitStopVars /\ InitCleanupVars
    /\ InitPropsVars
    /\ InitStartedEnv
    /\ brokerLog = [b \in Range(EntityIdsOfRole(sBroker)) |-> <<>>]
    /\ leaderDict = FullFact

NextBounce ==
    \/ RemoteProcessStarts
           /\ UNCHANGED <<validationVars, stopVars, lifecycleVars, leaderVars>>
    \/ RemoteProcessExits
           /\ UNCHANGED <<validationVars, stopVars, lifecycleVars, leaderVars>>
    \/ stop_remote_entity_in_testcase
           /\ UNCHANGED <<producerLog, consumerLog, missingLog, lastCall, markerVars, startVars,
                          leaderVars>>
    \/ stopPc = "idle" /\ validate_leader_election_successful
           /\ UNCHANGED <<procVars, stopVars, lifecycleVars>>

SpecBounce ==
    InitBounce /\ [][NextBounce /\ UNCHANGED <<cleanupVars, propsVars, pathVars>>]_vars

\* A testcase that, once the cluster is up, calls start_entity_in_background
\* for an entity of its topology, whatever its role.
start_entity_in_background_call ==
    /\ phase = "brokers_started"
    /\ restarts < MaxRestarts
    /\ \E k \in 1..Len(clusterConfigsList) :
           start_entity_in_background_launch(clusterConfigsList[k].entity_id)
    /\ restarts' = restarts + 1
    /\ UNCHANGED <<phase, startQueue>>

InitDirectStart ==
    /\ InitValidationVars /\ InitProcVars /\ InitPathVars /\ InitStopVars /\ InitCleanupVars
    /\ InitLeaderVars
    /\ InitStartedEnv
    /\ clusterConfigsList \in ClusterSamples
    /\ tcConfigsList = [i \in 1..Len(clusterConfigsList) |-> TestcaseConfigOf(clusterConfigsList[i])]
    /\ templateFiles = [name \in TemplateNames |-> TemplateLines(name)]
    /\ destFiles = <<>>
    /\ propsPc = "idle"
    /\ propsIdx = 0
    /\ propsZkConnectStr = <<>>
    /\ propsEvents = <<>>

NextDirectStart ==
    \/ start_entity_in_background_call
    \/ start_entity_in_background_sleep
    \/ start_entity_in_background_readback
    \/ start_entity_in_background_register
    \/ start_metrics_collection_launch
    \/ start_metrics_collection_readback
    \/ start_metrics_collection_register
    \/ RemoteShellWritesPid /\ UNCHANGED <<envVars, startVars>>

SpecDirectStart ==
    InitDirectStart /\ [][NextDirectStart /\ UNCHANGED <<validationVars, procVars, stopVars,
                                                         cleanupVars, leaderVars, propsVars,
                                                         pathVars>>]_vars

\* The resolution of a path, for every purpose asked for.
InitPath ==
    /\ InitValidationVars /\ InitProcVars /\ InitStopVars /\ InitLifecycleVars
    /\ InitCleanupVars /\ InitLeaderVars /\ InitPropsVars
    /\ pathArgs \in [testCaseLogsDir : LogsDirSamples, testCaseBaseDir : BaseDirSamples,
                     role : RoleSamples, entityId : EntityIdSamples, type : TypeSamples]
    /\ pathReturn = "none"
    /\ pathLogged = <<>>

NextPath == get_testcase_config_log_dir_pathname

SpecPath ==
    InitPath /\ [][NextPath /\ UNCHANGED <<validationVars, procVars, stopVars, lifecycleVars,
                                           cleanupVars, leaderVars, propsVars>>]_vars

-----------------------------------------------------------------------------
(* Claims about validate_data_matched *)

DataMatchedReturned ==
    lastCall.fn = "validate_data_matched" /\ lastCall.ret \in {"True", "False"}

\* C1: whenever validate_data_matched has returned for producer ids P and
\* consumer ids C, it returned True and recorded PASSED exactly when P is
\* non-empty and P minus C is empty; otherwise (in particular for P = {}) it
\* returned False and recorded FAILED.
C1_PassedIffNonEmptyAndNothingMissing ==
    DataMatchedReturned =>
        /\ (lastCall.ret = "True") <=> (lastCall.P # {} /\ lastCall.P \ lastCall.C = {})
        /\ DataMatchedKey \in DOMAIN validationStatusDict
        /\ validationStatusDict[DataMatchedKey] =
               (IF lastCall.P # {} /\ lastCall.P \subseteq lastCall.C THEN "PASSED" ELSE "FAILED")

\* A run that passed with a non-empty P that is a proper subset of C.
C1_Witness ==
    /\ DataMatchedReturned
    /\ lastCall.ret = "True"
    /\ lastCall.P # {}
    /\ lastCall.P # lastCall.C

\* C2: whenever validate_data_matched has returned for a P that is not a subset
\* of C, it returned False, recorded FAILED, and the missing-ids log holds
\* exactly the ids of P minus C, each on one line and each once, whatever the
\* file held before the run.
C2_MissingLogIsExactlyPMinusC ==
    (DataMatchedReturned /\ ~(lastCall.P \subseteq lastCall.C)) =>
        /\ lastCall.ret = "False"
        /\ validationStatusDict[DataMatchedKey] = "FAILED"
        /\ Range(missingLog) = lastCall.P \ lastCall.C
        /\ Len(missingLog) = Cardinality(lastCall.P \ lastCall.C)

\* A failed run whose log had held, from an earlier run, an id that is not
\* missing any more.
C2_Witness ==
    /\ DataMatchedReturned
    /\ ~(lastCall.P \subseteq lastCall.C)
    /\ \E k \in 1..Len(lastCall.before) : lastCall.before[k] \notin Range(missingLog)

-----------------------------------------------------------------------------
(* Claims about stop_remote_entity *)

\* C3: in every call of stop_remote_entity the graceful signal goes to the
\* stack resolved for the parent pid, every forced kill comes directly after a
\* sleep of at least one time unit that comes directly after the graceful
\* signal to the same stack on the same host, and a call that has returned
\* has issued both the graceful signal and the forced kill.
C3_TwoPhaseStop ==
    LET ev == stopEvents
        n  == Len(stopEvents)
    IN  /\ \A k \in 1..n : ev[k].op = "sigkill_remote_process" =>
               /\ k >= 3
               /\ ev[k-1].op = "sleep" /\ ev[k-1].secs >= 1
               /\ ev[k-2].op = "sigterm_remote_process"
               /\ ev[k-2].pids = ev[k].pids /\ ev[k-2].hostname = ev[k].hostname
        /\ \A k \in 1..n : ev[k].op = "sigterm_remote_process" =>
               /\ k >= 2
               /\ ev[k-1].op = "get_remote_child_processes"
               /\ ev[k-1].pids = <<stopArgs.parentPid>>
               /\ ev[k].pids = pidStack /\ pidStack[1] = stopArgs.parentPid
               /\ ev[k].hostname = ClusterEntity(stopArgs.entityId).hostname
               /\ stopPc = "idle" => (k + 2 <= n /\ ev[k+2].op = "sigkill_remote_process")
        /\ (stopPc = "idle" /\ n > 0) =>
               /\ \E k \in 1..n : ev[k].op = "sigterm_remote_process"
               /\ ev[n].op = "sigkill_remote_process"
        /\ stopPc \in {"termed", "slept"} => \E k \in 1..n : ev[k].op = "sigterm_remote_process"

\* A call that has returned after stopping a parent that had a running child.
C3_Witness ==
    /\ stopPc = "idle"
    /\ Len(stopEvents) = 4
    /\ Len(pidStack) >= 2
    /\ stopEvents[4].op = "sigkill_remote_process"

-----------------------------------------------------------------------------
(* Claims about cleanup_data_at_remote_hosts *)

HasTmpPrefix(path) ==
    /\ Len(path) >= 4
    /\ path[1] = "/" /\ path[2] = "t" /\ path[3] = "m" /\ path[4] = "p"

\* C5: every deletion command that has been issued names a directory that
\* begins with /tmp; the loop never goes past a zookeeper or broker whose
\* directory does not; and once the harness has exited, it has done so with a
\* non-zero status at such an entity, having issued commands for earlier
\* entities only.
C5_NoDeletionOutsideTmp ==
    /\ \A k \in 1..Len(cleanupCmds) : HasTmpPrefix(cleanupCmds[k].dataDir)
    /\ \A i \in 1..Len(clusterEntityConfigDictList) :
           (i < cleanupIdx /\ clusterEntityConfigDictList[i].entity_id \in DataEntityIds)
               => HasTmpPrefix(dataDirOf[clusterEntityConfigDictList[i].entity_id])
    /\ cleanupPc = "exited" =>
           /\ exitStatus # 0
           /\ clusterEntityConfigDictList[cleanupIdx].entity_id \in DataEntityIds
           /\ ~HasTmpPrefix(dataDirOf[clusterEntityConfigDictList[cleanupIdx].entity_id])
           /\ \A k \in 1..Len(cleanupCmds) : cleanupCmds[k].index < cleanupIdx
    /\ cleanupPc # "exited" => exitStatus = 0

\* The harness has exited at an entity after it had cleaned an earlier one,
\* and a later entity has a directory under /tmp that was never cleaned.
C5_Witness ==
    /\ cleanupPc = "exited"
    /\ Len(cleanupCmds) >= 1
    /\ \E i \in 1..Len(clusterEntityConfigDictList) :
           /\ i > cleanupIdx
           /\ clusterEntityConfigDictList[i].entity_id \in DataEntityIds
           /\ HasTmpPrefix(dataDirOf[clusterEntityConfigDictList[i].entity_id])

-----------------------------------------------------------------------------
(* Claims about the start-up *)

ZookeeperIds == {clusterEntityConfigDictList[i].entity_id : i \in
                    {j \in 1..Len(clusterEntityConfigDictList) :
                        clusterEntityConfigDictList[j].role = sZookeeper}}

IsZookeeperId(entityId) == entityId \in ZookeeperIds

BrokerStartAttempted ==
    \E i \in 1..Len(started) : ClusterEntity(started[i]).role = sBroker

Endpoint(entityId) == ClusterEntity(entityId).hostname \o <<":">> \o <<"2", "1", "8", "1">>

\* C4: (as amended) once the start of a broker has been attempted, the call of
\* start_entity_in_background for every coordination entity has returned and
\* the entity's endpoint is in zkConnectStr.
C4_ZookeepersReturnedBeforeBrokerStart ==
    BrokerStartAttempted =>
        \A z \in ZookeeperIds :
            /\ z \in Range(returned)
            /\ Contains(zkConnectStr, Endpoint(z))

\* A broker has been launched although a coordination entity has no pid on
\* record.
C4_Witness ==
    /\ BrokerStartAttempted
    /\ \E z \in ZookeeperIds : z \notin DOMAIN entityParentPidDict

\* C4: (as claimed) once the start of a broker has been attempted, every
\* coordination entity has its pid registered in entityParentPidDict.
C4_ZookeepersRegisteredBeforeBrokerStart ==
    BrokerStartAttempted =>
        \A z \in ZookeeperIds : z \in DOMAIN entityParentPidDict

\* C6: every key of entityParentPidDict is the entity_id of a cluster entity
\* whose start was called, and its value is a pid launched for that entity.
C6_KeysAreStartedEntityIds ==
    \A key \in DOMAIN entityParentPidDict :
        /\ key \in EntityIds
        /\ key \in Range(started)
        /\ \E i \in 1..Len(launches) :
               /\ launches[i].marker = EntityMarker(key)
               /\ entityParentPidDict[key] = ToDecimal(launches[i].pid)

IsPidLine(line) ==
    /\ Len(line) > 4
    /\ SubSeq(line, 1, 4) = <<"p", "i", "d", ":">>
    /\ \A i \in 5..Len(line) : line[i] \in Range(Digits)

PidOfLine(line) == SubSeq(line, 5, Len(line))

\* C7: the running (or last) call of start_entity_in_background has launched
\* the entity, then slept 5 time units, then read the entity's marker file
\* back, then registered, in this order; the marker file is read only directly
\* after the sleep that follows its launch; and once a read-back that returned
\* a line pid:<N> has been registered, entityParentPidDict[entityId] is N.
C7_StartProtocol ==
    LET ev == startEvents
        n  == Len(startEvents)
        m  == EntityMarker(startEntity)
    IN  /\ n >= 1 => (ev[1].op = "async_sys_call" /\ ev[1].marker = m)
        /\ n >= 2 => (ev[2].op = "sleep" /\ ev[2].secs = 5)
        /\ n >= 3 => (ev[3].op = "sys_call_return_subproc" /\ ev[3].marker = m)
        /\ n >= 4 => (ev[4].op = "register" /\ ev[4].marker = m /\ ev[4].output = ev[3].output)
        /\ \A k \in 1..n : (ev[k].op = "sys_call_return_subproc" /\ ev[k].marker = m) =>
               /\ k >= 3
               /\ ev[k-1].op = "sleep" /\ ev[k-1].secs >= 5
               /\ ev[k-2].op = "async_sys_call" /\ ev[k-2].marker = m
        /\ \A k \in 1..n : (ev[k].op = "register" /\ ev[k].marker = m) =>
               \A j \in 1..Len(ev[k].output) : IsPidLine(ev[k].output[j]) =>
                   /\ startEntity \in DOMAIN entityParentPidDict
                   /\ entityParentPidDict[startEntity] = PidOfLine(ev[k].output[j])
        /\ startPc \in {"slept", "read", "registered"} => n >= 2

\* A call whose read-back returned a pid line, registered.
C7_Witness ==
    /\ Len(startEvents) >= 4
    /\ startEvents[4].op = "register"
    /\ Len(startEvents[4].output) = 1
    /\ IsPidLine(startEvents[4].output[1])
    /\ entityParentPidDict[startEntity] = PidOfLine(startEvents[4].output[1])

\* C8: whenever the read-back of an entity's marker file held no line of the
\* form pid:<N>, nothing was raised, and entityParentPidDict is, right after
\* the registration step, what it was before it.
C8_SoftFailureOnEveryUnusableReadback ==
    LET ev == startEvents
        n  == Len(startEvents)
    IN  \A k \in 1..n :
            (/\ ev[k].op = "register"
             /\ ev[k].marker = EntityMarker(startEntity)
             /\ \A j \in 1..Len(ev[k].output) : ~IsPidLine(ev[k].output[j])) =>
                /\ startRaised = "none"
                /\ n = k => entityParentPidDict = ev[k].dict

\* C9: every read-back of a marker file, an entity's or a metrics collector's,
\* comes directly after a sleep that comes directly after the launch that
\* writes that marker file.
C9_SettleDelayBeforeEveryReadback ==
    LET ev == startEvents
        n  == Len(startEvents)
    IN  \A k \in 1..n : ev[k].op = "sys_call_return_subproc" =>
            /\ k >= 3
            /\ ev[k-1].op = "sleep" /\ ev[k-1].secs > 0
            /\ ev[k-2].op = "async_sys_call" /\ ev[k-2].marker = ev[k].marker

RECURSIVE CommaJoined(_)
CommaJoined(strings) ==
    IF strings = <<>> THEN <<>>
    ELSE IF Len(strings) = 1 THEN strings[1]
    ELSE strings[1] \o <<",">> \o CommaJoined(Tail(strings))

IsPrefix(s, t) == Len(s) <= Len(t) /\ SubSeq(t, 1, Len(s)) = s

ZookeepersStarted == SelectSeq(started, IsZookeeperId)

sThreeZookeepers == <<"h", "1", ":", "2", "1", "8", "1", ",", "h", "2", ":", "2", "1", "8", "1", ",", "h", "3", ":", "2", "1", "8", "1">>

\* C10: zkConnectStr, empty at first, is at all times the comma-separated list
\* of the endpoints of the coordination entities started so far, in the order
\* of their starts, which is the order of the topology while start_zookeepers
\* runs (no start of a broker adds to it); once start_zookeepers has returned
\* for h1, h2 and h3 it is h1:2181,h2:2181,h3:2181, and stays so while the
\* brokers are started.
C10_ConnectionStringAccumulates ==
    /\ zkConnectStr = CommaJoined([i \in 1..Len(ZookeepersStarted) |->
                                      Endpoint(ZookeepersStarted[i])])
    /\ restarts = 0 => IsPrefix(ZookeepersStarted, EntityIdsOfRole(sZookeeper))
    /\ (restarts = 0 /\ phase \in {"zookeepers_started", "start_brokers", "brokers_started"})
           => zkConnectStr = sThreeZookeepers

\* The three coordination entities and a broker have been started.
C10_Witness ==
    /\ phase = "brokers_started"
    /\ restarts = 0
    /\ zkConnectStr = sThreeZookeepers
    /\ BrokerStartAttempted

IsMetricsLaunch(event) ==
    event.op = "async_sys_call" /\ event.marker[2] = "metrics"

-----------------------------------------------------------------------------
(* Claims about the leader fact *)

LeaderValidated == lastCall.fn = "validate_leader_election_successful"

PidOnRecordForFact ==
    /\ "entity_id" \in DOMAIN leaderDict
    /\ leaderDict["entity_id"] \in DOMAIN entityParentPidDict

LeaderVerdictRecorded(verdict) ==
    /\ LeaderElectionKey \in DOMAIN validationStatusDict
    /\ validationStatusDict[LeaderElectionKey] = verdict

\* C12: (as amended) validate_leader_election_successful returns True and
\* records PASSED exactly when the fact has the fields brokerid, entity_id,
\* hostname and partition and a pid is on record for its entity_id; in every
\* other case it returns False and records FAILED.
C12_PassedIffReadFieldsAndPidOnRecord ==
    LeaderValidated =>
        LET passes == /\ "brokerid" \in DOMAIN leaderDict
                      /\ "hostname" \in DOMAIN leaderDict
                      /\ "partition" \in DOMAIN leaderDict
                      /\ PidOnRecordForFact
        IN  /\ passes => (lastCall.ret = "True" /\ LeaderVerdictRecorded("PASSED"))
            /\ ~passes => (lastCall.ret = "False" /\ LeaderVerdictRecorded("FAILED"))

\* A fact that is not empty and names an entity with a pid on record has been
\* found FAILED.
C12_Witness ==
    /\ LeaderValidated
    /\ DOMAIN leaderDict # {}
    /\ PidOnRecordForFact
    /\ lastCall.ret = "False"
    /\ LeaderVerdictRecorded("FAILED")

\* C12: (as claimed) validate_leader_election_successful yields PASSED exactly
\* when the fact is not empty and a pid is on record for its entity_id.
C12_PassedIffNonEmptyAndPidOnRecord ==
    LeaderValidated =>
        (LeaderVerdictRecorded("PASSED") <=> (DOMAIN leaderDict # {} /\ PidOnRecordForFact))

\* C13: for a fact that lacks any of its six fields, or whose entity_id has no
\* pid on record, validate_leader_election_successful returns False and
\* records FAILED.
C13_FailedOnAnyMissingField ==
    (LeaderValidated /\ (LeaderFields # DOMAIN leaderDict \/ ~PidOnRecordForFact)) =>
        (lastCall.ret = "False" /\ LeaderVerdictRecorded("FAILED"))

LeaderExtracted == lastCall.fn = "get_leader_elected_log_line"

\* The line of a broker's log that the extraction selects, if any, holds the
\* marker and matches the pattern.
SelectedLineUsable(b) ==
    \E i \in 1..Len(grep_sort_tail(brokerLog[b])) :
        /\ Contains(grep_sort_tail(brokerLog[b])[i], sLeaderMsg)
        /\ LeaderPatternMatches(grep_sort_tail(brokerLog[b])[i])

\* C14: when no broker log has a line with the marker that is selected and
\* matches the pattern, get_leader_elected_log_line returns the empty fact.
C14_EmptyFactWhenNothingExtracted ==
    (LeaderExtracted /\ \A b \in DOMAIN brokerLog : ~SelectedLineUsable(b)) =>
        DOMAIN leaderDict = {}

-----------------------------------------------------------------------------
(* Claims about validationStatusDict *)

VerdictOf(ret) == IF ret = "True" THEN "PASSED" ELSE "FAILED"

\* C15: every value of validationStatusDict is PASSED or FAILED, and every
\* validation call returns True or False and changes validationStatusDict in
\* its own entry alone, which it sets to PASSED when it returns True and to
\* FAILED otherwise.
C15_OutcomeRecordedAsValue ==
    /\ [](\A key \in DOMAIN validationStatusDict :
              validationStatusDict[key] \in {"PASSED", "FAILED"})
    /\ [][/\ lastCall'.fn = "validate_data_matched" =>
              /\ lastCall'.ret \in {"True", "False"}
              /\ validationStatusDict' =
                     DictSet(validationStatusDict, DataMatchedKey, VerdictOf(lastCall'.ret))
          /\ lastCall'.fn = "validate_leader_election_successful" =>
              /\ lastCall'.ret \in {"True", "False"}
              /\ validationStatusDict' =
                     DictSet(validationStatusDict, LeaderElectionKey, VerdictOf(lastCall'.ret))
         ]_vars

-----------------------------------------------------------------------------
(* Claims about get_message_id *)

sMessageIDColon == <<"M", "e", "s", "s", "a", "g", "e", "I", "D", ":">>

\* The texts that stand in the line between an occurrence of MessageID: and
\* the next ':' after that occurrence.
IdTexts(line) ==
    {SubSeq(line, i + 10, j - 1) :
        <<i, j>> \in {p \in (1..Len(line)) \X (1..Len(line)) :
                        /\ p[1] + 10 <= p[2]
                        /\ SubSeq(line, p[1], p[1] + 9) = sMessageIDColon
                        /\ line[p[2]] = ":"
                        /\ \A k \in (p[1] + 10)..(p[2] - 1) : line[k] # ":"}}

MarkedLines(log) == {i \in 1..Len(log) : Contains(log[i], <<"M", "e", "s", "s", "a", "g", "e", "I", "D">>)}

\* C16: a validate_data_matched call never ends in an exception of
\* get_message_id: for any two logs it returns, with P and C the ids of the
\* lines of the form MessageID:<id>: and nothing for a line that has
\* MessageID in another form.
C16_NoCrashOnPatternMismatch ==
    lastCall.fn = "validate_data_matched" =>
        /\ lastCall.ret \in {"True", "False"}
        /\ lastCall.P \subseteq UNION {IdTexts(producerLog[i]) : i \in MarkedLines(producerLog)}
        /\ lastCall.C \subseteq UNION {IdTexts(consumerLog[i]) : i \in MarkedLines(consumerLog)}
        /\ \A i \in MarkedLines(producerLog) : IdTexts(producerLog[i]) = {} \/
               IdTexts(producerLog[i]) \cap lastCall.P # {}
        /\ \A i \in MarkedLines(consumerLog) : IdTexts(consumerLog[i]) = {} \/
               IdTexts(consumerLog[i]) \cap lastCall.C # {}

C18_IdIsTextUpToNextColon ==
    DataMatchedReturned =>
        \A log \in {producerLog, consumerLog} :
            LET ids    == get_message_id(log).messageIdList
                marked == SelectSeq(log, HasMessageID)
            IN  /\ Len(ids) = Cardinality(MarkedLines(log))
                /\ Len(ids) = Len(marked)
                /\ \A k \in 1..Len(ids) : ids[k] \in IdTexts(marked[k])

\* A line without MessageID and a line that holds MessageID twice have been
\* read, and gave one id.
C18_Witness ==
    /\ DataMatchedReturned
    /\ Len(producerLog) = 2
    /\ ~HasMessageID(producerLog[1])
    /\ Cardinality(IdTexts(producerLog[2])) = 2
    /\ Cardinality(lastCall.P) = 1

-----------------------------------------------------------------------------
(* Claims about generate_overriden_props_files *)

KnownRoles == {sBroker, sZookeeper, sProducer, sConsumer}

HasTestcaseConfig(entity) ==
    \E i \in 1..Len(tcConfigsList) : tcConfigsList[i][sEntityIdKey] = entity.entity_id

PropsEventsOf(op) == {k \in 1..Len(propsEvents) : propsEvents[k].op = op}

\* C19: the loop of generate_overriden_props_files never goes past a cluster
\* entity that has a testcase configuration and a role other than broker,
\* zookeeper, producer_performance and console_consumer, and with such an
\* entity in the cluster no file is ever copied to a remote host.
C19_UnknownRoleIsHardStop ==
    \A k \in 1..Len(clusterConfigsList) :
        (clusterConfigsList[k].role \notin KnownRoles /\ HasTestcaseConfig(clusterConfigsList[k])) =>
            /\ ~(propsPc = "rendering" /\ propsIdx > k)
            /\ propsPc \notin {"distributing", "returned"}
            /\ PropsEventsOf("scp") = {}

\* C20: a copy to a remote host is issued only after the config file of every
\* cluster entity that has a testcase configuration has been rendered; once
\* generate_overriden_props_files has returned, a copy has been issued towards
\* the host of every cluster entity; and once it has raised, none has.
C20_RenderAllThenDistribute ==
    /\ \A k \in PropsEventsOf("scp") :
           \A i \in 1..Len(clusterConfigsList) :
               HasTestcaseConfig(clusterConfigsList[i]) =>
                   \E j \in PropsEventsOf("render") :
                       j < k /\ propsEvents[j].entity_id = clusterConfigsList[i].entity_id
    /\ propsPc = "returned" =>
           \A i \in 1..Len(clusterConfigsList) :
               \E k \in PropsEventsOf("scp") :
                   propsEvents[k].hostname = clusterConfigsList[i].hostname
    /\ propsPc = "raised" => PropsEventsOf("scp") = {}

TcConfigFor(entity) ==
    tcConfigsList[CHOOSE i \in 1..Len(tcConfigsList) :
                      tcConfigsList[i][sEntityIdKey] = entity.entity_id]

IsZookeeperEntity(entity) == entity.role = <<"z", "o", "o", "k", "e", "e", "p", "e", "r">>

\* The string S of the topology: hostname:clientPort of its zookeepers, in the
\* order of the topology, separated by commas.
TopologyConnectStr ==
    LET zks == SelectSeq(clusterConfigsList, IsZookeeperEntity)
    IN  CommaJoined([i \in 1..Len(zks) |-> zks[i].hostname \o <<":", "2", "1", "8", "1">>])

\* C21: once generate_overriden_props_files has returned, its connection
\* string is S, the testcase configuration of every broker is what it was
\* plus zk.connect = S, that of every producer plus brokerinfo =
\* 'zk.connect=' + S, that of every consumer plus zookeeper = S, and that of
\* every zookeeper is what it was.
C21_InjectedFieldsByRole ==
    propsPc = "returned" =>
        /\ propsZkConnectStr = TopologyConnectStr
        /\ \A i \in 1..Len(clusterConfigsList) :
               LET entity == clusterConfigsList[i]
                   before == TestcaseConfigOf(entity)
               IN  HasTestcaseConfig(entity) =>
                       /\ entity.role = sBroker =>
                              TcConfigFor(entity) = before @@ (sZkConnect :> TopologyConnectStr)
                       /\ entity.role = sProducer =>
                              TcConfigFor(entity) = before @@
                                  (sBrokerinfo :> (<<"z", "k", ".", "c", "o", "n", "n", "e", "c", "t", "=">>
                                                      \o TopologyConnectStr))
                       /\ entity.role = sConsumer =>
                              TcConfigFor(entity) = before @@ (sZookeeper :> TopologyConnectStr)
                       /\ entity.role = sZookeeper => TcConfigFor(entity) = before

\* The call has returned for a cluster of three zookeepers, a broker, a
\* producer and a consumer that all have a testcase configuration.
C21_Witness ==
    /\ propsPc = "returned"
    /\ propsZkConnectStr = sThreeZookeepers
    /\ \A i \in 1..Len(clusterConfigsList) : HasTestcaseConfig(clusterConfigsList[i])
    /\ \E i \in 1..Len(clusterConfigsList) :
           /\ clusterConfigsList[i].role = sConsumer
           /\ TcConfigFor(clusterConfigsList[i])[sZookeeper] = sThreeZookeepers
    /\ \E i \in 1..Len(clusterConfigsList) :
           /\ clusterConfigsList[i].role = sBroker
           /\ TcConfigFor(clusterConfigsList[i])[sZkConnect] = sThreeZookeepers

\* The key of a template line: the text before its first '='.
HasKey(line) == \E i \in 1..Len(line) : line[i] = "="

KeyOf(line) ==
    SubSeq(line, 1, (CHOOSE i \in 1..Len(line) :
                        line[i] = "=" /\ \A j \in 1..(i - 1) : line[j] # "=") - 1)

\* C22: every rendered config file has as many lines as the template of its
\* entity's role; its i-th line is key=value (and a newline) when the key of
\* the template's i-th line is a key of the entity's settings, value being
\* the setting, and is the template's i-th line as it stands otherwise.
C22_RenderedLineByLine ==
    \A e \in 1..Len(clusterConfigsList) :
        LET entity == clusterConfigsList[e]
        IN  (/\ HasTestcaseConfig(entity)
             /\ TcConfigFor(entity)[sConfigFilenameKey] \in DOMAIN destFiles) =>
                LET settings == TcConfigFor(entity)
                    template == templateFiles[TemplateOf(entity.role)]
                    output   == destFiles[settings[sConfigFilenameKey]]
                IN  /\ Len(output) = Len(template)
                    /\ \A i \in 1..Len(template) :
                           IF HasKey(template[i]) /\ KeyOf(template[i]) \in DOMAIN settings
                           THEN output[i] = KeyOf(template[i]) \o <<"=">>
                                                \o settings[KeyOf(template[i])] \o <<"\n">>
                           ELSE output[i] = template[i]

\* The broker's file has been rendered: zk.connect=OLD has become
\* zk.connect=h1:2181,h2:2181,h3:2181 and the other line is as in the template.
C22_Witness ==
    /\ <<"1", ".", "p">> \in DOMAIN destFiles
    /\ destFiles[<<"1", ".", "p">>] =
           << <<"z", "k", ".", "c", "o", "n", "n", "e", "c", "t", "=", "h", "1", ":", "2", "1", "8", "1", ",", "h", "2", ":", "2", "1", "8", "1", ",", "h", "3", ":", "2", "1", "8", "1", "\n">>, <<"b", "r", "o", "k", "e", "r", "i", "d", "=", "0", "\n">> >>
    /\ templateFiles["server.properties"][1] = <<"z", "k", ".", "c", "o", "n", "n", "e", "c", "t", "=", "O", "L", "D", "\n">>

-----------------------------------------------------------------------------
(* Claims about the selection of the leader line *)

ElectionFields == {"timestamp", "brokerid", "topic", "partition"}

\* The lines of a log that hold the marker, in upper or lower case.
MarkerLines(log) ==
    {log[i] : i \in {j \in 1..Len(log) :
                        \E k \in 1..Len(log[j]) : log[j][k] \in {"L", "l"}}}

IsLastOf(line, lines) == line \in lines /\ \A other \in lines : ~LexLess(line, other)

\* The line holds the marker as it is written and has the four groups.
HasFourGroups(line) == Len(line) >= 5 /\ line[2] = "L"

HasTimestamp(line) == line[1] \in {"0", "1", "2", "3", "4", "5", "6", "7", "8", "9"}

CarriesFieldsOf(fact, line) ==
    /\ ElectionFields \subseteq DOMAIN fact
    /\ ToDecimal(fact["timestamp"]) = <<line[1]>>
    /\ fact["brokerid"] = <<line[3]>>
    /\ fact["topic"] = <<line[4]>>
    /\ fact["partition"] = <<line[5]>>

BrokerPositions ==
    {i \in 1..Len(clusterConfigsList) :
        clusterConfigsList[i].role = <<"b", "r", "o", "k", "e", "r">>}

LogAt(i) == brokerLog[clusterConfigsList[i].entity_id]

\* The line the extraction is left with for the broker at position i.
LastMarkerLines(i) == {line \in MarkerLines(LogAt(i)) : IsLastOf(line, MarkerLines(LogAt(i)))}

\* C23: (as amended) the fact that get_leader_elected_log_line returns has
\* election fields only if for some broker the last, in sorted order, of the
\* marker lines of its log has the four groups and a well-formed timestamp,
\* and then all four fields are the groups of such a line; and the fact
\* carries the fields of that last line of the last broker of the topology
\* that has one with the four groups and a well-formed timestamp.
C23_FieldsOfLastLineWithTimestamp ==
    LET Usable(i) == \E line \in LastMarkerLines(i) : HasFourGroups(line) /\ HasTimestamp(line)
    IN  LeaderExtracted =>
            /\ (DOMAIN leaderDict \cap ElectionFields # {}) =>
                   \E i \in BrokerPositions : \E line \in LastMarkerLines(i) :
                       HasFourGroups(line) /\ HasTimestamp(line) /\ CarriesFieldsOf(leaderDict, line)
            /\ \A i \in BrokerPositions :
                   (Usable(i) /\ \A j \in BrokerPositions : j > i => ~Usable(j)) =>
                       \A line \in LastMarkerLines(i) : CarriesFieldsOf(leaderDict, line)

\* A log holds two election lines, the later one first, and the fact has
\* the fields of the one that sorts last.
C23_Witness ==
    /\ LeaderExtracted
    /\ brokerLog[<<"7">>] = << <<"2", "L", "c", "t", "q">>, <<"1", "L", "b", "t", "p">> >>
    /\ CarriesFieldsOf(leaderDict, <<"2", "L", "c", "t", "q">>)

\* C23: (as claimed) the fact carries the fields of the last, in sorted
\* order, of the marker lines of the log of the last broker of the topology
\* in whose log that line holds the marker and has the four groups.
C23_FieldsOfLastLine ==
    LET Matching(i) == \E line \in LastMarkerLines(i) : HasFourGroups(line)
    IN  LeaderExtracted =>
            \A i \in BrokerPositions :
                (Matching(i) /\ \A j \in BrokerPositions : j > i => ~Matching(j)) =>
                    \A line \in LastMarkerLines(i) :
                        /\ ElectionFields \subseteq DOMAIN leaderDict
                        /\ leaderDict["brokerid"] = <<line[3]>>
                        /\ leaderDict["topic"] = <<line[4]>>
                        /\ leaderDict["partition"] = <<line[5]>>

-----------------------------------------------------------------------------
(* Claims about the leader fact in a cluster of several brokers *)

SuppliedBy(fact, i) ==
    \E line \in LastMarkerLines(i) :
        HasFourGroups(line) /\ HasTimestamp(line) /\ CarriesFieldsOf(fact, line)

\* C27: in the fact that get_leader_elected_log_line returns for a cluster of
\* several brokers, whenever election fields are present the entity_id and
\* the hostname are those of a broker whose log supplied the fields.
C27_IdentityOfSupplier ==
    (LeaderExtracted /\ DOMAIN leaderDict \cap ElectionFields # {}) =>
        \E i \in BrokerPositions :
            /\ leaderDict["entity_id"] = clusterConfigsList[i].entity_id
            /\ leaderDict["hostname"] = clusterConfigsList[i].hostname
            /\ SuppliedBy(leaderDict, i)

-----------------------------------------------------------------------------
(* Claims about get_testcase_config_log_dir_pathname *)

PathResolved == pathReturn # "none"

EntityLogDir == pathArgs.testCaseLogsDir \o <<"/">> \o pathArgs.role \o <<"-">> \o pathArgs.entityId

\* C24: the purpose metrics gives <logsDir>/<role>-<entityId>/metrics, default
\* gives <logsDir>/<role>-<entityId>, dashboards gives <logsDir>/dashboards
\* and config gives <baseDir>/config, whatever the role and the entity id;
\* any other purpose gives <logsDir>/<role>-<entityId>, and the call returns.
C24_PathByPurpose ==
    PathResolved =>
        /\ pathReturn \in Seq({pathReturn[i] : i \in DOMAIN pathReturn})
        /\ CASE pathArgs.type = sMetrics    -> pathReturn = EntityLogDir \o <<"/", "m", "e", "t", "r", "i", "c", "s">>
             [] pathArgs.type = sDefault    -> pathReturn = EntityLogDir
             [] pathArgs.type = sDashboards ->
                    pathReturn = pathArgs.testCaseLogsDir \o <<"/", "d", "a", "s", "h", "b", "o", "a", "r", "d", "s">>
             [] pathArgs.type = sConfig     ->
                    pathReturn = pathArgs.testCaseBaseDir \o <<"/", "c", "o", "n", "f", "i", "g">>
             [] OTHER                       -> pathReturn = EntityLogDir

\* The path for a purpose that is none of the four has been resolved.
C24_Witness ==
    /\ PathResolved
    /\ pathArgs.type = <<"l", "o", "g", "s">>
    /\ pathArgs.role = sZookeeper
    /\ pathReturn = EntityLogDir
    /\ Len(pathLogged) = 2

-----------------------------------------------------------------------------
(* Claims about the escalation of stop_remote_entity *)

StopEventsOf(op) == {k \in 1..Len(stopEvents) : stopEvents[k].op = op}

\* C25: in every call of stop_remote_entity the process tree is resolved
\* once, as the first step, before the graceful signal; the forced kill is
\* addressed to the very stack the graceful signal was addressed to, on the
\* same host; and the step that issues the forced kill leaves no process
\* alive that was sent the graceful signal.
C25_EscalationReachesTree ==
    /\ [](/\ Cardinality(StopEventsOf("get_remote_child_processes")) <= 1
          /\ StopEventsOf("get_remote_child_processes") \subseteq {1}
          /\ StopEventsOf("sigterm_remote_process") \subseteq {2}
          /\ \A k \in StopEventsOf("sigkill_remote_process") :
                 /\ StopEventsOf("sigterm_remote_process") = {2}
                 /\ stopEvents[k].pids = stopEvents[2].pids
                 /\ stopEvents[k].hostname = stopEvents[2].hostname)
    /\ [][(stopPc = "slept" /\ stopPc' = "idle") =>
              /\ StopEventsOf("sigterm_remote_process") = {2}
              /\ stopEvents'[Len(stopEvents')].op = "sigkill_remote_process"
              /\ Range(stopEvents[2].pids) \cap alive \subseteq Range(stopEvents'[Len(stopEvents')].pids)
              /\ Range(stopEvents[2].pids) \cap alive' = {}]_vars

\* A call has returned whose graceful signal went to a parent and its child,
\* after a moment at which the child had survived the graceful signal.
C25_Witness ==
    /\ stopPc = "idle"
    /\ StopEventsOf("sigkill_remote_process") # {}
    /\ Len(stopEvents[2].pids) >= 2
    /\ Range(stopEvents[2].pids) \cap DOMAIN procParent # {}

-----------------------------------------------------------------------------
(* Claims about the pid that a start records *)

\* The last call of start_entity_in_background has returned.
LastStartReturned ==
    /\ started # <<>>
    /\ startPc = "none"
    /\ startRaised = "none"
    /\ returned # <<>>
    /\ returned[Len(returned)] = startEntity

\* The pid of the process that the last call launched for its entity.
PidLaunchedByLastStart ==
    LET own == {k \in 1..Len(launches) : launches[k].marker = EntityMarker(startEntity)}
    IN  launches[Max(own)].pid

\* C26: whenever start_entity_in_background has returned and its entityId is
\* a key of entityParentPidDict, the pid on record is the pid of the process
\* that this very call launched.
C26_RecordedPidIsOfThisLaunch ==
    (LastStartReturned /\ startEntity \in DOMAIN entityParentPidDict) =>
        entityParentPidDict[startEntity] = ToDecimal(PidLaunchedByLastStart)

-----------------------------------------------------------------------------
(* Claims about the two computations of the connection string *)

ZookeepersStartedOnce ==
    /\ phase \in {"zookeepers_started", "start_brokers", "brokers_started"}
    /\ SelectSeq(started, IsZookeeperId) = EntityIdsOfRole(sZookeeper)

BrokerTestcaseConfigs ==
    {tcConfigsList[i] : i \in {k \in 1..Len(tcConfigsList) :
        \E e \in 1..Len(clusterConfigsList) :
            /\ clusterConfigsList[e].entity_id = tcConfigsList[k][sEntityIdKey]
            /\ clusterConfigsList[e].role = sBroker}}

\* The string accumulated by one run of start_zookeepers is the string that
\* generate_overriden_props_files injected into the broker configurations.
ConnectionStringsAgree ==
    (propsPc = "returned" /\ ZookeepersStartedOnce) =>
        \A tcCfg \in BrokerTestcaseConfigs :
            /\ sZkConnect \in DOMAIN tcCfg
            /\ tcCfg[sZkConnect] = zkConnectStr

\* The accumulated string lists no endpoint twice.
NoEndpointTwice ==
    LET endpoints == Split(zkConnectStr, ",")
    IN  \A i, j \in 1..Len(endpoints) : endpoints[i] = endpoints[j] => i = j

\* C28: when zkConnectStr is empty before the start-up and start_zookeepers
\* has run once, zkConnectStr equals the string generate_overriden_props_files
\* injected as zk.connect into the broker configurations of the same topology;
\* and zkConnectStr never lists the same hostname:clientPort twice.
C28_ConnectionStringsAgreeAndNoDuplicates ==
    /\ ConnectionStringsAgree
    /\ NoEndpointTwice

-----------------------------------------------------------------------------
(* Claims about the order of the cleanup *)

HasDataDirectory(i) ==
    \/ clusterEntityConfigDictList[i].role = <<"z", "o", "o", "k", "e", "e", "p", "e", "r">>
    \/ clusterEntityConfigDictList[i].role = <<"b", "r", "o", "k", "e", "r">>

\* C29: the deletion commands issued so far are, in topology order, one for
\* each zookeeper and each broker that precedes the entity the loop is at,
\* each for that entity's host and directory, and none for an entity of
\* another role; when the guard has aborted at entity k, these are the
\* zookeepers and brokers that precede k, and k and the later entities have
\* none.
C29_CleanupOrderedAndPartial ==
    LET visited == {i \in 1..Len(clusterEntityConfigDictList) :
                       i < cleanupIdx /\ HasDataDirectory(i)}
    IN  /\ {cleanupCmds[k].index : k \in 1..Len(cleanupCmds)} = visited
        /\ Len(cleanupCmds) = Cardinality(visited)
        /\ \A k \in 1..Len(cleanupCmds) - 1 : cleanupCmds[k].index < cleanupCmds[k + 1].index
        /\ \A k \in 1..Len(cleanupCmds) :
               LET entity == clusterEntityConfigDictList[cleanupCmds[k].index]
               IN  /\ cleanupCmds[k].hostname = entity.hostname
                   /\ cleanupCmds[k].dataDir = dataDirOf[entity.entity_id]
                   /\ cleanupCmds[k].cmdStr =
                          <<"s", "s", "h", " ">> \o entity.hostname
                              \o <<" ", "'", "r", "m", " ", "-", "r", " ">>
                              \o dataDirOf[entity.entity_id] \o <<"/", "*", "'">>
        /\ cleanupPc = "exited" =>
               /\ cleanupIdx \in 1..Len(clusterEntityConfigDictList)
               /\ HasDataDirectory(cleanupIdx)
               /\ \A k \in 1..Len(cleanupCmds) : cleanupCmds[k].index # cleanupIdx
        /\ cleanupPc = "returned" => cleanupIdx = Len(clusterEntityConfigDictList) + 1

\* The guard has aborted at the fourth entity, after the deletion commands
\* for a zookeeper, a broker and a zookeeper.
C29_Witness ==
    /\ cleanupPc = "exited"
    /\ cleanupIdx = 4
    /\ Len(cleanupCmds) = 3
    /\ cleanupCmds[2].hostname = clusterEntityConfigDictList[2].hostname

-----------------------------------------------------------------------------
(* Claims about the testcase state across a stop *)

\* The last call of stop_remote_entity has returned, and it stopped entityId.
StopReturnedFor(entityId) ==
    /\ stopPc = "idle"
    /\ stopEvents # <<>>
    /\ stopArgs.entityId = entityId

\* C30: no step of stop_remote_entity changes entityParentPidDict,
\* userDefinedEnvVarDict or validationStatusDict; and when
\* validate_leader_election_successful is called after the stop of the entity
\* its fact names, with a pid on record for it as before the stop, it returns
\* True and records PASSED.
C30_StopLeavesTestcaseState ==
    /\ [][(stopPc' # stopPc \/ stopEvents' # stopEvents) =>
              /\ entityParentPidDict' = entityParentPidDict
              /\ zkConnectStr' = zkConnectStr
              /\ validationStatusDict' = validationStatusDict]_vars
    /\ []((/\ LeaderValidated
           /\ "entity_id" \in DOMAIN leaderDict
           /\ StopReturnedFor(leaderDict["entity_id"])
           /\ entityParentPidDict # <<>>)
              => /\ leaderDict["entity_id"] \in DOMAIN entityParentPidDict
                 /\ lastCall.ret = "True"
                 /\ LeaderVerdictRecorded("PASSED"))

\* The broker's process and its child were stopped, and the validation of the
\* fact that names the broker has passed afterwards.
C30_Witness ==
    /\ LeaderValidated
    /\ StopReturnedFor(<<"1">>)
    /\ Len(stopEvents) = 4
    /\ Len(stopEvents[4].pids) >= 2
    /\ alive \cap Range(stopEvents[4].pids) = {}
    /\ LeaderVerdictRecorded("PASSED")

-----------------------------------------------------------------------------
(* Claims about the start of an entity of another role *)

IsLaunchableRole(role) ==
    \/ role = <<"z", "o", "o", "k", "e", "e", "p", "e", "r">>
    \/ role = <<"b", "r", "o", "k", "e", "r">>

RoleInTopology(entityId) ==
    LET at == {k \in 1..Len(clusterConfigsList) : clusterConfigsList[k].entity_id = entityId}
    IN  clusterConfigsList[Min(at)].role

\* The last call of start_entity_in_background was for an entity that is
\* neither a zookeeper nor a broker.
LastStartOfOtherRole ==
    /\ started # <<>>
    /\ ~IsLaunchableRole(RoleInTopology(started[Len(started)]))

\* C31: a call of start_entity_in_background for an entity that is neither a
\* zookeeper nor a broker raises an error, issues no remote command (no
\* detached launch, no sleep, no read-back) and leaves entityParentPidDict and
\* zkConnectStr as they were; nothing of the call runs after the error.
C31_OtherRolesFailBeforeAnyRemoteCommand ==
    /\ [][(started' # started /\ ~IsLaunchableRole(RoleInTopology(started'[Len(started')]))) =>
              /\ startRaised' # "none"
              /\ launches' = launches
              /\ jobs' = jobs
              /\ markerFile' = markerFile
              /\ startEvents' = <<>>
              /\ entityParentPidDict' = entityParentPidDict
              /\ zkConnectStr' = zkConnectStr]_vars
    /\ [](LastStartOfOtherRole =>
              /\ startRaised = "UnboundLocalError"
              /\ startPc = "none"
              /\ startEvents = <<>>
              /\ \A k \in 1..Len(launches) : launches[k].marker[1] # started[Len(started)]
              /\ started[Len(started)] \notin DOMAIN entityParentPidDict
              /\ Len(returned) < Len(started))

\* The call was made for the entity of the unknown role, with the broker's
\* pid on record, and has raised.
C31_Witness ==
    /\ LastStartOfOtherRole
    /\ RoleInTopology(startEntity) = <<"m", "i", "g", "r", "a", "t", "i", "o", "n", "_", "t", "o", "o", "l">>
    /\ startRaised = "UnboundLocalError"
    /\ entityParentPidDict # <<>>

=============================================================================
